---- MODULE Spec2Model ----
(***************************************************************************)
(* State-machine model of flask-media-dl: the download orchestrator        *)
(* (downloaders/youtube_downloader.py), the platform API wrapper           *)
(* (platforms/youtube.py) and the shared utilities (utils.py).             *)
(***************************************************************************)
EXTENDS Integers, Sequences, FiniteSets, TLC

(***************************************************************************)
(* Bounds of the model.                                                    *)
(***************************************************************************)
MaxVideos == 3
MaxConcurrency == 3
MaxBatchVideos == 7
MaxPages == 2
MaxOptimize == 3
MaxFail == 3

VideoIds == {"a", "b"}

(***************************************************************************)
(* What the retrieval engine and the post-processing do for one video id:  *)
(* the first of the steps video, thumbnail, subtitles that does not        *)
(* complete, and whether its exception is one the step catches.            *)
(***************************************************************************)
Scenarios ==
    {"ok", "video_caught", "video_uncaught",
     "thumbnail_caught", "thumbnail_uncaught", "subtitles_raise"}

VARIABLES
    videos_ids,         \* self.videos_ids, the resolved video-id list
    max_concurrency,    \* self.max_concurrency
    engine,             \* environment: VideoIds -> Scenarios
    pc,                 \* position of run()
    mode,               \* "none", "sequential" or "pool"
    batches,            \* the batches handed to download_video_files_batch
    workers,            \* per batch: position in the batch, step, succeeded, failed
    hist,               \* the steps that have returned
    dirs,               \* video ids whose per-video directory exists
    overall_succeeded,  \* what download_video_files returned
    overall_failed,
    error,              \* the exception run() ended with
    log,                \* exceptions download_video_files logged
    authors_arg,        \* the argument of get_videos_authors_info
    cache,              \* the files of YOUTUBE.cache_dir, by file name
    last_call,          \* the last call of a platform wrapper function
    youtube_id,         \* self.youtube_id, as its comma-separated parts
    dateafter,          \* self.dateafter
    optimize,           \* self.optimize
    data_dir,           \* the JSON files of self.data_dir, by file name
    playlists,          \* self.playlists
    main_channel_id,    \* self.main_channel_id
    uploads_playlist_id,\* self.uploads_playlist_id
    api_requests,       \* the HTTP requests of the resolution phases, in order
    resolved,           \* how extract_playlists ended: "pending", "none", exception
    files,              \* self.files, each file as the list of its lines
    videos,             \* self.videos
    total_size,         \* self.total_size
    library_call,       \* the last call of a library function
    last_saved,         \* per cache key, the data of the last save_json
    process             \* YOUTUBE.cache_dir and the orchestrators of the process

\* What extract_playlists and extract_videos_info work on and leave.
resolution ==
    <<youtube_id, dateafter, optimize, data_dir, playlists, main_channel_id,
      uploads_playlist_id, api_requests, resolved>>

\* What file mode works on and leaves.
file_mode == <<files, videos, total_size>>

\* What the calls of the library functions leave.
library == <<library_call, last_saved, process>>

inputs ==
    <<videos_ids, max_concurrency, engine, resolution, file_mode, library>>

vars ==
    <<videos_ids, max_concurrency, engine, pc, mode, batches, workers, hist,
      dirs, overall_succeeded, overall_failed, error, log, authors_arg,
      cache, last_call, resolution, file_mode, library>>

\* Python's None where an id is expected
NoneId == "None"

\* No file is supplied and no library function has been called.
NoFiles ==
    /\ files = <<>>
    /\ videos = <<>>
    /\ total_size = 0

\* A process in which no orchestrator is constructed: YOUTUBE.cache_dir is
\* None (0), set by no constructor yet.
NoProcess == [holder |-> 0, runs |-> <<>>]

NotCalling ==
    /\ library_call = [fn |-> "none"]
    /\ last_saved = <<>>
    /\ process = NoProcess

\* The resolution variables of a download that is entered directly.
NotResolving ==
    /\ NoFiles
    /\ NotCalling
    /\ youtube_id = <<>>
    /\ dateafter = "all"
    /\ optimize = [isNone |-> TRUE, n |-> 0]
    /\ data_dir = <<>>
    /\ playlists = <<>>
    /\ main_channel_id = NoneId
    /\ uploads_playlist_id = NoneId
    /\ api_requests = <<>>
    /\ resolved = "pending"

NoError == [type |-> "none", id |-> ""]

\* F applied to the value of v, with v evaluated once
Bind(v, F(_)) == CHOOSE r \in {F(x) : x \in {v}} : TRUE

RECURSIVE SeqsUpTo(_, _)
SeqsUpTo(S, n) ==
    IF n = 0 THEN {<<>>}
    ELSE LET shorter == SeqsUpTo(S, n - 1)
         IN  shorter \cup {Append(s, x) : s \in shorter, x \in S}

Range(s) == {s[i] : i \in 1..Len(s)}

(***************************************************************************)
(* The three steps of one video.  A step returns "True", "False" or "None" *)
(* as the Python function does, or "raise" when an exception leaves it.    *)
(***************************************************************************)
download_video_returns_true(s) ==
    IF s = "video_caught" THEN "False"
    ELSE IF s = "video_uncaught" THEN "raise"
    ELSE "True"

\* try: download + post_process_video; except (caught): return False.
\* The try block ends without a return statement: the result is None.
download_video(s) ==
    IF s = "video_caught" THEN "False"
    ELSE IF s = "video_uncaught" THEN "raise"
    ELSE "None"

\* try: download + process_thumbnail; except (caught): return False.
download_thumbnail(s) ==
    IF s = "thumbnail_caught" THEN "False"
    ELSE IF s = "thumbnail_uncaught" THEN "raise"
    ELSE "None"

\* try: download; except Exception: log.  Nothing leaves the function.
download_subtitles(s) == "None"

\* Python truth value of a step's result.
Truthy(v) == v = "True"

(***************************************************************************)
(* download_video_files: effective concurrency and round-robin batches.    *)
(***************************************************************************)
Concurrency(nb_videos, m) == IF nb_videos < m THEN nb_videos ELSE m

\* Mutant: the generator wraps one slot early.
NextSlot_wraps_early(n, concurrency) ==
    IF n + 2 >= concurrency THEN 0 ELSE n + 1

\* get_slot: 0, 1, .., concurrency - 1, 0, 1, ..
NextSlot(n, concurrency) == IF n + 1 >= concurrency THEN 0 ELSE n + 1

RECURSIVE FillBatches(_, _, _, _, _)
FillBatches(ids, concurrency, i, slot, acc) ==
    IF i > Len(ids) THEN acc
    ELSE FillBatches(ids, concurrency, i + 1, NextSlot(slot, concurrency),
                     [acc EXCEPT ![slot + 1] = Append(@, ids[i])])

\* Mutant: every worker is handed the whole list.
MakeBatches_whole_list(ids, concurrency) == [b \in 1..concurrency |-> ids]

MakeBatches(ids, concurrency) ==
    FillBatches(ids, concurrency, 1, 0, [b \in 1..concurrency |-> <<>>])

(***************************************************************************)
(* download_video_files_batch, one worker per batch.  A worker is at the   *)
(* head of the loop ("idle"), inside one of the three steps of the k-th id *)
(* of its batch, or has left the function ("finished", "raised").          *)
(***************************************************************************)
NewWorker(batch) ==
    [k |-> 0,
     step |-> IF Len(batch) = 0 THEN "finished" ELSE "idle",
     succeeded |-> <<>>,
     failed |-> <<>>]

Running == {"video", "thumbnail", "subtitles"}

\* The loop head after the k-th id: the next id, or the return statement.
AfterVideo(w) ==
    IF workers[w].k < Len(batches[w]) THEN "idle" ELSE "finished"

CurrentId(w) == batches[w][workers[w].k]

\* The exception that left the batch of worker w.
WorkerException(w) == [type |-> "uncaught", id |-> CurrentId(w)]

\* Mutant: "or" for "and" in the condition of the batch loop.
BatchAfterStep_or(w, r) ==
    LET me == workers[w]
        id == CurrentId(w)
    IN  IF r = "raise" THEN [me EXCEPT !.step = "raised"]
        ELSE IF me.step = "subtitles"
        THEN [me EXCEPT !.step = AfterVideo(w), !.succeeded = Append(@, id)]
        ELSE IF Truthy(r) THEN [me EXCEPT !.step = "subtitles"]
        ELSE IF me.step = "video" THEN [me EXCEPT !.step = "thumbnail"]
        ELSE [me EXCEPT !.step = AfterVideo(w), !.failed = Append(@, id)]

\* if download_video(..) and download_thumbnail(..): download_subtitles(..);
\* succeeded.append(..) else: failed.append(..) -- the state of the worker
\* after the step it is in has returned r.
BatchAfterStep(w, r) ==
    LET me == workers[w]
        id == CurrentId(w)
    IN  IF r = "raise" THEN [me EXCEPT !.step = "raised"]
        ELSE IF me.step = "subtitles"
        THEN [me EXCEPT !.step = AfterVideo(w), !.succeeded = Append(@, id)]
        ELSE IF Truthy(r)
        THEN [me EXCEPT !.step = IF me.step = "video" THEN "thumbnail"
                                  ELSE "subtitles"]
        ELSE [me EXCEPT !.step = AfterVideo(w), !.failed = Append(@, id)]

StepResult(step, s) ==
    IF step = "video" THEN download_video(s)
    ELSE IF step = "thumbnail" THEN download_thumbnail(s)
    ELSE download_subtitles(s)

\* for video_id in videos_ids: the call of download_video on the next id.
BatchNext(w) ==
    /\ pc = "workers"
    /\ workers[w].step = "idle"
    /\ workers' = [workers EXCEPT ![w].k = @ + 1, ![w].step = "video"]
    /\ UNCHANGED <<inputs, pc, mode, batches, hist, dirs, overall_succeeded,
                   overall_failed, error, log, authors_arg, cache, last_call>>

\* The step a worker is in returns.  The video step writes below
\* <videos_dir>/<id>/; a failed download may or may not leave files there.
StepReturn(w, leftover) ==
    /\ pc = "workers"
    /\ workers[w].step \in Running
    /\ LET id == CurrentId(w)
           step == workers[w].step
           r == StepResult(step, engine[id])
       IN  /\ workers' = [workers EXCEPT ![w] = BatchAfterStep(w, r)]
           /\ hist' = hist \cup
                  {[w |-> w, k |-> workers[w].k, id |-> id, step |-> step,
                    result |-> r]}
           /\ dirs' = IF step = "video" /\ (r \in {"None", "True"} \/ leftover)
                      THEN dirs \cup {id} ELSE dirs
    /\ UNCHANGED <<inputs, pc, mode, batches, overall_succeeded,
                   overall_failed, error, log, authors_arg, cache, last_call>>

(***************************************************************************)
(* utils.py: the JSON cache.  The cache directory is a function from file  *)
(* names to contents; a content is Absent (no such file), Corrupt (a file  *)
(* json.load cannot parse) or a JSON document, a record with a kind.       *)
(***************************************************************************)
Absent == [kind |-> "absent"]
Corrupt == [kind |-> "corrupt"]
None == [kind |-> "None"]

\* fname = cache_dir.joinpath(f"{key}.json")
FileOf(key) == key \o ".json"

\* What json.dump can write: a set is not serializable (TypeError)
Serializable(data) == data.kind # "set"

\* The document json.dump(data) writes.  A tuple is written as an array
\* and the keys of a dict as strings; a document made of lists, dicts
\* keyed by strings, strings, numbers and None is written as it is.  The
\* file is opened for writing before the encoder raises: what is left of
\* a value that is not serializable does not parse.
json_dump(data) ==
    IF data.kind = "tuple" THEN [kind |-> "list", items |-> data.items]
    ELSE IF data.kind = "pydict" THEN [data EXCEPT !.keytype = "str"]
    ELSE IF ~Serializable(data) THEN Corrupt
    ELSE data

\* json.load(fp) of a document that parses: arrays are read as lists,
\* objects as dicts keyed by strings.
json_load(content) == content

\* Mutant: the file is written only when it does not exist yet.
save_json_exclusive(c, key, data) ==
    IF c[FileOf(key)].kind = "absent"
    THEN [c EXCEPT ![FileOf(key)] = json_dump(data)]
    ELSE c

\* json.dump(data, fp, indent=4) into <cache_dir>/<key>.json
save_json(c, key, data) == [c EXCEPT ![FileOf(key)] = json_dump(data)]

\* None when the file does not exist or does not parse, else json.load(fp)
load_json(c, key) ==
    IF c[FileOf(key)].kind \in {"absent", "corrupt"} THEN None
    ELSE json_load(c[FileOf(key)])

\* os.remove(os.path.join(cache_dir, name)): FileNotFoundError when absent
FileExists(c, name) == c[name].kind # "absent"

(***************************************************************************)
(* platforms/youtube.py: the wrapper functions.  A call is an operator     *)
(* from the cache and the platform's answers to a record: the cache it     *)
(* leaves, the HTTP requests it issued, the exception that left it         *)
(* ("none" when it returned) and its result.                               *)
(***************************************************************************)
MAX_VIDEOS_PER_REQUEST == 50

Request(endpoint, id, status) ==
    [endpoint |-> endpoint, id |-> id, status |-> status]

Returned(c, reqs, result) ==
    [cache |-> c, requests |-> reqs, raised |-> "none", result |-> result]

Raised(c, reqs, exc) ==
    [cache |-> c, requests |-> reqs, raised |-> exc, result |-> None]

\* The answers of the videos endpoint to one request.
VideosAnswers == {"error", "items", "empty"}

\* range(0, len(videos_ids), MAX_VIDEOS_PER_REQUEST)
NbChunks(n) == (n + MAX_VIDEOS_PER_REQUEST - 1) \div MAX_VIDEOS_PER_REQUEST

\* get_videos_authors_info(videos_ids).  Every request of the call gets the
\* answer `answer`: a non-2xx status, a page with at least one item, or a
\* page without items and without nextPageToken.  Building the entry of an
\* item evaluates item["statistics"]["viewPerYear"], a key the platform
\* does not send, and int(publishedAt[:4] + 1): the first item raises.
get_videos_authors_info(c, ids, answer) ==
    LET items == load_json(c, "videos_channels")
        one(status) == <<Request("videos", "", status)>>
        all == [i \in 1..NbChunks(Len(ids)) |-> Request("videos", "", "ok")]
        doc == [kind |-> "dict", keys |-> {}]
    IN  IF items # None THEN Returned(c, <<>>, items)
        ELSE IF NbChunks(Len(ids)) = 0
        THEN Returned(save_json(c, "videos_channels", doc), <<>>, doc)
        ELSE IF answer = "error" THEN Raised(c, one("error"), "HTTPError")
        ELSE IF answer = "items" THEN Raised(c, one("ok"), "KeyError")
        ELSE Returned(save_json(c, "videos_channels", doc), all, doc)

\* self.optimize: absent, or a number.
OptNone == [isNone |-> TRUE, n |-> 0]
OptOf(n) == [isNone |-> FALSE, n |-> n]

NoCall ==
    [fn |-> "", arg |-> "", opt |-> OptNone, hit |-> FALSE, requests |-> <<>>,
     raised |-> "none"]

\* The record of a call of wrapper fn on arg that ended as `out`; `key` is
\* the cache key of the resource.
CallOf(fn, arg, key, c, out) ==
    [fn |-> fn, arg |-> arg, opt |-> OptNone,
     hit |-> c[FileOf(key)].kind \notin {"absent", "corrupt"},
     requests |-> out.requests, raised |-> out.raised]

(***************************************************************************)
(* download_video_files                                                    *)
(***************************************************************************)
\* Lines 433-453: the sequential fallback runs one batch, the whole list, in
\* the calling thread; otherwise one batch per worker of the pool.
DownloadVideoFilesEnter ==
    /\ pc = "download"
    /\ LET concurrency == Concurrency(Len(videos_ids), max_concurrency)
           bs == IF concurrency <= 1 THEN <<videos_ids>>
                 ELSE MakeBatches(videos_ids, concurrency)
       IN  /\ mode' = IF concurrency <= 1 THEN "sequential" ELSE "pool"
           /\ batches' = bs
           /\ workers' = [b \in 1..Len(bs) |-> NewWorker(bs[b])]
    /\ pc' = "workers"
    /\ UNCHANGED <<inputs, hist, dirs, overall_succeeded, overall_failed,
                   error, log, authors_arg, cache, last_call>>

\* Line 439: return self.download_video_files_batch(options, self.videos_ids)
SequentialReturn ==
    /\ pc = "workers"
    /\ mode = "sequential"
    /\ workers[1].step \in {"finished", "raised"}
    /\ IF workers[1].step = "raised"
       THEN /\ pc' = "aborted"
            /\ error' = WorkerException(1)
            /\ UNCHANGED <<overall_succeeded, overall_failed>>
       ELSE /\ pc' = "threshold"
            /\ overall_succeeded' = workers[1].succeeded
            /\ overall_failed' = workers[1].failed
            /\ UNCHANGED error
    /\ UNCHANGED <<inputs, mode, batches, workers, hist, dirs, log,
                   authors_arg, cache, last_call>>

Done(w) == workers[w].step \in {"finished", "raised"}

RECURSIVE Collect(_, _, _)
\* for future in done: succeeded, failed = future.result(); overall += ..
\* over the futures in the order `order`, from its i-th on.
Collect(order, i, field) ==
    IF i > Len(order) THEN <<>>
    ELSE workers[order[i]][field] \o Collect(order, i + 1, field)

\* Mutant: "=" for "+=", the lists of the last future only.
accumulate_last(order, field) == workers[order[Len(order)]][field]

\* overall_failed += failed
accumulate(order, field) == Collect(order, 1, field)

\* The first future of the iteration whose result() raises, 0 if none.
FirstRaised(order) ==
    LET at == {i \in 1..Len(order) : workers[order[i]].step = "raised"}
    IN  IF at = {} THEN 0
        ELSE order[CHOOSE i \in at : \A j \in at : i <= j]

\* rmtree of the per-video directory of every failed id
cleanup(d, failed) == d \ Range(failed)

\* Lines 458-487.  wait(fs, return_when=ALL_COMPLETED) returns when every
\* future has completed; `done` is a set, iterated in the order `order`.
PoolCollect(order) ==
    /\ pc = "workers"
    /\ mode = "pool"
    /\ \A w \in 1..Len(workers) : Done(w)
    /\ LET not_done == {w \in 1..Len(workers) : ~Done(w)}
           raised == FirstRaised(order)
       IN  /\ log' = IF not_done # {}
                     THEN log \cup {WorkerException(w) : w \in not_done}
                     ELSE log
           /\ IF raised # 0
              THEN /\ pc' = "aborted"
                   /\ error' = WorkerException(raised)
                   /\ UNCHANGED <<overall_succeeded, overall_failed, dirs>>
              ELSE /\ pc' = "threshold"
                   /\ overall_succeeded' = accumulate(order, "succeeded")
                   /\ overall_failed' = accumulate(order, "failed")
                   /\ dirs' = cleanup(dirs, accumulate(order, "failed"))
                   /\ UNCHANGED error
    /\ UNCHANGED <<inputs, mode, batches, workers, hist, authors_arg, cache,
                   last_call>>

(***************************************************************************)
(* run(), from the download phase on.                                      *)
(***************************************************************************)
\* Mutant: the comparison without the enclosing "if failed".
TooManyFailed_unguarded(succeeded, failed) == Len(failed) >= Len(succeeded)

\* if failed: if len(failed) >= len(succeeded): raise OSError
TooManyFailed(succeeded, failed) ==
    Len(failed) > 0 /\ Len(failed) >= Len(succeeded)

Threshold ==
    /\ pc = "threshold"
    /\ IF TooManyFailed(overall_succeeded, overall_failed)
       THEN pc' = "aborted" /\ error' = [type |-> "OSError", id |-> ""]
       ELSE pc' = "authors" /\ UNCHANGED error
    /\ UNCHANGED <<inputs, mode, batches, workers, hist, dirs,
                   overall_succeeded, overall_failed, log, authors_arg, cache,
                   last_call>>

\* get_videos_authors_info(succeeded)
AuthorEnrichment(answer) ==
    /\ pc = "authors"
    /\ LET out == get_videos_authors_info(cache, overall_succeeded, answer)
       IN  /\ cache' = out.cache
           /\ last_call' = CallOf("get_videos_authors_info", "",
                                  "videos_channels", cache, out)
           /\ IF out.raised = "none"
              THEN pc' = "metadata" /\ UNCHANGED error
              ELSE pc' = "aborted" /\ error' = [type |-> out.raised, id |-> ""]
    /\ authors_arg' = overall_succeeded
    /\ UNCHANGED <<inputs, mode, batches, workers, hist, dirs,
                   overall_succeeded, overall_failed, log>>

\* self.update_metadata()
UpdateMetadata ==
    /\ pc = "metadata"
    /\ pc' = "done"
    /\ UNCHANGED <<inputs, mode, batches, workers, hist, dirs,
                   overall_succeeded, overall_failed, error, log, authors_arg,
                   cache, last_call>>

(***************************************************************************)
(* The download phase of one run: run() has resolved its video ids.        *)
(***************************************************************************)
CacheFiles == {FileOf("videos_channels")}

InitDownload ==
    /\ videos_ids \in SeqsUpTo(VideoIds, MaxVideos)
    /\ max_concurrency \in 0..MaxConcurrency
    /\ engine \in [VideoIds -> Scenarios]
    /\ pc = "download"
    /\ mode = "none"
    /\ batches = <<>>
    /\ workers = <<>>
    /\ hist = {}
    /\ dirs = {}
    /\ overall_succeeded = <<>>
    /\ overall_failed = <<>>
    /\ error = NoError
    /\ log = {}
    /\ authors_arg = <<>>
    /\ cache \in [CacheFiles -> {Absent, [kind |-> "dict", keys |-> {}]}]
    /\ last_call = NoCall
    /\ NotResolving

NextDownload ==
    \/ DownloadVideoFilesEnter
    \/ \E w \in 1..Len(workers) : BatchNext(w)
    \/ \E w \in 1..Len(workers), leftover \in BOOLEAN : StepReturn(w, leftover)
    \/ SequentialReturn
    \/ \E order \in Permutations(1..Len(workers)) : PoolCollect(order)
    \/ Threshold
    \/ \E answer \in VideosAnswers : AuthorEnrichment(answer)
    \/ UpdateMetadata

SpecDownload == InitDownload /\ [][NextDownload]_vars

(***************************************************************************)
(* Batch construction alone, on longer lists.                              *)
(***************************************************************************)
InitBatches ==
    /\ videos_ids \in SeqsUpTo(VideoIds, MaxBatchVideos)
    /\ max_concurrency \in 0..MaxConcurrency
    /\ engine = [v \in VideoIds |-> "ok"]
    /\ pc = "download"
    /\ mode = "none"
    /\ batches = <<>>
    /\ workers = <<>>
    /\ hist = {}
    /\ dirs = {}
    /\ overall_succeeded = <<>>
    /\ overall_failed = <<>>
    /\ error = NoError
    /\ log = {}
    /\ authors_arg = <<>>
    /\ cache = [f \in CacheFiles |-> Absent]
    /\ last_call = NoCall
    /\ NotResolving

SpecBatches == InitBatches /\ [][DownloadVideoFilesEnter]_vars

(***************************************************************************)
(* Vocabulary of the claims about the download phase.                      *)
(***************************************************************************)
Workers == 1..Len(workers)

\* The ids of its batch a worker is through with.
Completed(w) ==
    IF workers[w].step \in {"idle", "finished"} THEN workers[w].k
    ELSE workers[w].k - 1

StepOK(w, k, step) ==
    \E h \in hist : /\ h.w = w /\ h.k = k /\ h.step = step
                    /\ h.result \notin {"False", "raise"}

StepCaught(w, k, step) ==
    \E h \in hist : h.w = w /\ h.k = k /\ h.step = step /\ h.result = "False"

StepAttempted(w, k, step) ==
    \/ \E h \in hist : h.w = w /\ h.k = k /\ h.step = step
    \/ workers[w].k = k /\ workers[w].step = step

BothOK(w, k) == StepOK(w, k, "video") /\ StepOK(w, k, "thumbnail")

SomeCaught(w, k) == StepCaught(w, k, "video") \/ StepCaught(w, k, "thumbnail")

RECURSIVE IdsWhereBothOK(_, _)
IdsWhereBothOK(w, k) ==
    IF k = 0 THEN <<>>
    ELSE IF BothOK(w, k) THEN Append(IdsWhereBothOK(w, k - 1), batches[w][k])
    ELSE IdsWhereBothOK(w, k - 1)

RECURSIVE IdsWhereSomeCaught(_, _)
IdsWhereSomeCaught(w, k) ==
    IF k = 0 THEN <<>>
    ELSE IF SomeCaught(w, k)
    THEN Append(IdsWhereSomeCaught(w, k - 1), batches[w][k])
    ELSE IdsWhereSomeCaught(w, k - 1)

Count(s, x) == Cardinality({i \in 1..Len(s) : s[i] = x})

Min(a, b) == IF a < b THEN a ELSE b
Max(a, b) == IF a > b THEN a ELSE b

\* download_video_files has returned to run().
DownloadReturned ==
    /\ pc \notin {"download", "workers"}
    /\ ~(pc = "aborted" /\ error.type = "uncaught")

InFlight == {w \in Workers : workers[w].step \in Running}

(***************************************************************************)
(* C1.  In download_video_files_batch an id is appended to succeeded if    *)
(* and only if both its video step and its thumbnail step complete without *)
(* a caught failure, and to failed if and only if one of the two steps had *)
(* a caught failure.                                                       *)
(***************************************************************************)
C1_SucceededIffBothSteps ==
    \A w \in Workers :
        /\ workers[w].succeeded = IdsWhereBothOK(w, Completed(w))
        /\ workers[w].failed = IdsWhereSomeCaught(w, Completed(w))

(***************************************************************************)
(* C2.  After the download phase run() aborts with the "too many videos    *)
(* failed" error exactly when the failed list is non-empty and at least as *)
(* long as the succeeded list; in every other case it goes on to author    *)
(* enrichment.                                                             *)
(***************************************************************************)
C2_ThresholdAbortsIff ==
    LET trips == /\ overall_failed # <<>>
                 /\ Len(overall_failed) >= Len(overall_succeeded)
        passed == \/ pc \in {"authors", "metadata", "done"}
                  \/ pc = "aborted" /\ error.type \in {"HTTPError", "KeyError"}
    IN  /\ (pc = "aborted" /\ error.type = "OSError") => trips
        /\ passed => ~trips
        /\ DownloadReturned /\ pc # "threshold" =>
               (pc = "aborted" /\ error.type = "OSError") \/ passed

C2_Witness ==
    /\ pc = "aborted"
    /\ error.type = "OSError"
    /\ mode = "pool"
    /\ Len(overall_failed) >= 2

(***************************************************************************)
(* C3.  When download_video_files returns, on the sequential path and on   *)
(* the pool path, every id of the resolved list is in exactly one of the   *)
(* succeeded and failed lists and the two lists hold no other id.          *)
(***************************************************************************)
C3_SucceededFailedPartition ==
    DownloadReturned =>
        /\ Range(overall_succeeded) \cap Range(overall_failed) = {}
        /\ Range(overall_succeeded) \cup Range(overall_failed)
               = Range(videos_ids)
        /\ \A id \in VideoIds :
               Count(overall_succeeded, id) + Count(overall_failed, id)
                   = Count(videos_ids, id)

C3_Witness ==
    /\ pc = "threshold"
    /\ mode = "pool"
    /\ Len(videos_ids) = 3
    /\ Range(videos_ids) = VideoIds

(***************************************************************************)
(* C4.  For n resolved ids and max_concurrency m with N = min(n, m) >= 2,  *)
(* download_video_files builds exactly N batches, the id at position i of  *)
(* the list (from 0) is the next id of batch i mod N, every position of    *)
(* the list is in exactly one batch, an id that occurs once in the list is *)
(* in exactly one batch, and batch sizes differ by at most one (7 ids with *)
(* m = 3 give sizes 3, 2, 2).                                              *)
(***************************************************************************)
BatchesOf(id) == {b \in 1..Len(batches) : id \in Range(batches[b])}

RECURSIVE SumLen(_, _)
SumLen(bs, b) == IF b = 0 THEN 0 ELSE Len(bs[b]) + SumLen(bs, b - 1)

RoundRobin ==
    LET n == Len(videos_ids)
        N == Min(n, max_concurrency)
    IN  /\ mode = "pool"
        /\ Len(batches) = N
        /\ \A i \in 0..(n - 1) :
               /\ (i \div N) + 1 <= Len(batches[(i % N) + 1])
               /\ batches[(i % N) + 1][(i \div N) + 1] = videos_ids[i + 1]
        /\ SumLen(batches, N) = n
        /\ \A b1, b2 \in 1..N : Len(batches[b1]) - Len(batches[b2]) <= 1
        /\ (n = 7 /\ N = 3) =>
               <<Len(batches[1]), Len(batches[2]), Len(batches[3])>>
                   = <<3, 2, 2>>

BatchesBuilt ==
    pc = "workers" /\ Min(Len(videos_ids), max_concurrency) >= 2

C4_RoundRobinBatches ==
    BatchesBuilt =>
        /\ RoundRobin
        /\ \A id \in VideoIds :
               Count(videos_ids, id) = 1 => Cardinality(BatchesOf(id)) = 1

\* The claim as stated: every id appears in exactly one batch.
C4_EveryIdInOneBatch ==
    BatchesBuilt =>
        /\ RoundRobin
        /\ \A id \in Range(videos_ids) : Cardinality(BatchesOf(id)) = 1

C4_Witness ==
    /\ pc = "workers"
    /\ Len(videos_ids) = 7
    /\ max_concurrency = 3
    /\ Range(videos_ids) = VideoIds
    /\ Len(batches[1]) = 3

(***************************************************************************)
(* C5.  During the download phase at most min(video count,                 *)
(* max_concurrency) videos are being processed, and never more than one on *)
(* the sequential fallback; each worker processes the ids of its own batch *)
(* one at a time in batch order; no id is processed more often than it     *)
(* occurs in the resolved list, and an id that occurs once is never        *)
(* processed by two workers.                                               *)
(***************************************************************************)
ProcessedBy(id) ==
    {w \in Workers : \E k \in 1..workers[w].k : batches[w][k] = id}

TimesProcessed(id) ==
    Cardinality({<<w, k>> \in Workers \X (1..MaxBatchVideos) :
                    k <= workers[w].k /\ batches[w][k] = id})

OwnBatchInOrder ==
    /\ \A h \in hist :
           /\ h.w \in Workers
           /\ h.k \in 1..workers[h.w].k
           /\ h.id = batches[h.w][h.k]
    /\ \A w \in Workers :
           /\ workers[w].k <= Len(batches[w])
           /\ \A k \in 1..Completed(w) :
                  \E h \in hist : h.w = w /\ h.k = k /\ h.step = "video"

C5_BoundedDisjointWorkers ==
    /\ Cardinality(InFlight)
           <= Max(1, Min(Len(videos_ids), max_concurrency))
    /\ mode = "pool" =>
           Cardinality(InFlight) <= Min(Len(videos_ids), max_concurrency)
    /\ OwnBatchInOrder
    /\ \A id \in VideoIds :
           /\ TimesProcessed(id) <= Count(videos_ids, id)
           /\ Count(videos_ids, id) = 1 => Cardinality(ProcessedBy(id)) <= 1

\* The claim as stated.
C5_AtMostMinNoSharedId ==
    /\ Cardinality(InFlight) <= Min(Len(videos_ids), max_concurrency)
    /\ OwnBatchInOrder
    /\ \A id \in VideoIds : Cardinality(ProcessedBy(id)) <= 1

C5_Witness ==
    /\ Cardinality(InFlight) = 2
    /\ \E w \in InFlight : workers[w].k = 2

(***************************************************************************)
(* C6.  When download_video_files returns normally, for every effective    *)
(* concurrency, the sequential fallback included, the per-video directory  *)
(* of every failed id has been removed and the directory of every          *)
(* succeeded id is in place.                                               *)
(***************************************************************************)
C6_FailedDirsRemoved ==
    DownloadReturned =>
        /\ \A id \in Range(overall_failed) : id \notin dirs
        /\ \A id \in Range(overall_succeeded) : id \in dirs

(***************************************************************************)
(* C7.  Within a batch the thumbnail step of an id starts only after its   *)
(* video step has finished successfully, the subtitle step only after both *)
(* the video and the thumbnail step have succeeded, and neither is         *)
(* attempted for an id whose video step failed.                            *)
(***************************************************************************)
VideoFailed(w, k) ==
    \E h \in hist : /\ h.w = w /\ h.k = k /\ h.step = "video"
                    /\ h.result \in {"False", "raise"}

C7_ThumbnailAfterVideo ==
    \A w \in Workers : \A k \in 1..workers[w].k :
        /\ StepAttempted(w, k, "thumbnail") => StepOK(w, k, "video")
        /\ StepAttempted(w, k, "subtitles") => BothOK(w, k)
        /\ VideoFailed(w, k) =>
               /\ ~StepAttempted(w, k, "thumbnail")
               /\ ~StepAttempted(w, k, "subtitles")

C7_Witness ==
    \E w \in Workers :
        /\ workers[w].k = 2
        /\ StepCaught(w, 1, "video")
        /\ ~StepAttempted(w, 1, "thumbnail")
        /\ batches[w][1] \in Range(workers[w].failed)

(***************************************************************************)
(* C8.  If the subtitle download of an id raises after the video and the   *)
(* thumbnail step of the id succeeded, the id is still recorded as         *)
(* succeeded, nothing is added to failed and the batch goes on.            *)
(***************************************************************************)
C8_SubtitleFailureSwallowed ==
    \A w \in Workers : \A k \in 1..Completed(w) :
        engine[batches[w][k]] = "subtitles_raise" =>
            /\ batches[w][k] \in Range(workers[w].succeeded)
            /\ batches[w][k] \notin Range(workers[w].failed)

(***************************************************************************)
(* C9.  If a worker batch raises an exception that is none of the caught   *)
(* failures, download_video_files logs the exception and re-raises it once *)
(* all batches have completed, and run() aborts without author enrichment  *)
(* and without metadata finalization.                                      *)
(***************************************************************************)
SomeBatchRaised == \E w \in Workers : workers[w].step = "raised"

ReraisedAfterAll ==
    /\ pc = "aborted"
    /\ \A w \in Workers : Done(w)
    /\ \E w \in Workers :
           workers[w].step = "raised" /\ error = WorkerException(w)
    /\ last_call = NoCall
    /\ authors_arg = <<>>

C9_UncaughtLoggedAndReraised ==
    (mode = "pool" /\ SomeBatchRaised /\ pc # "workers") =>
        /\ ReraisedAfterAll
        /\ error \in log

\* What the pool path does with the exception: re-raised, never logged.
C9_ReraisedNotLogged ==
    (mode = "pool" /\ SomeBatchRaised /\ pc # "workers") =>
        /\ ReraisedAfterAll
        /\ log = {}

(***************************************************************************)
(* The platform: one channel with its uploads playlist and two playlists.  *)
(***************************************************************************)
ChannelIds == {"UC1"}
PlaylistIds == {"PL1", "PL2", "UU1"}

\* The ChannelResult of the platform for a channel id (or a username).
ChannelDoc(channel_id) ==
    [kind |-> "channel", id |-> "UC1", uploads |-> "UU1", title |-> "Channel"]

\* The PlaylistResult of the platform.
PlaylistDoc(playlist_id) ==
    [kind |-> "playlist", id |-> playlist_id, channelId |-> "UC1",
     channelTitle |-> "Channel", title |-> playlist_id]

ListDoc(items) == [kind |-> "list", items |-> items]

\* The playlists of the channel, as the playlists endpoint lists them.
PlatformPlaylists(channel_id) == <<[id |-> "PL1"], [id |-> "PL2"]>>

\* A PlaylistItem: contentDetails.videoId, snippet.position and
\* snippet.playlistId
VideoItem(v, position, playlist_id) ==
    [videoId |-> v, position |-> position, playlistId |-> playlist_id]

PlatformVideoIds(playlist_id) ==
    IF playlist_id = "PL1" THEN <<"a", "b">>
    ELSE IF playlist_id = "PL2" THEN <<"b", "c", "d">>
    ELSE <<"a", "b", "c", "d">>

\* The PlaylistItems of a playlist, as the playlistItems endpoint lists them.
PlatformVideos(playlist_id) ==
    [i \in 1..Len(PlatformVideoIds(playlist_id)) |->
        VideoItem(PlatformVideoIds(playlist_id)[i], i - 1, playlist_id)]

RECURSIVE Pagings(_, _)
\* The ways the platform can cut a list into at most n pages; a page holds
\* at least one item unless the list is empty.
Pagings(list, n) ==
    IF n <= 1 \/ Len(list) <= 1 THEN {<<list>>}
    ELSE {<<list>>} \cup
         UNION {{<<SubSeq(list, 1, i)>> \o rest :
                    rest \in Pagings(SubSeq(list, i + 1, Len(list)), n - 1)} :
                i \in 1..(Len(list) - 1)}

RECURSIVE Flatten(_, _)
\* items += page["items"], for the first n pages
Flatten(pages, n) ==
    IF n = 0 THEN <<>> ELSE Flatten(pages, n - 1) \o pages[n]

\* The values of optimize_number the calls are made with.
OptimizeNumbers == {OptNone} \cup {OptOf(n) : n \in 0..MaxOptimize}

\* The answers of a lookup endpoint: a non-2xx status, one item, no item.
LookupAnswers == {"error", "found", "empty"}

\* The requests of a paginated fetch that got through `n` pages and, when
\* `failed`, one more request answered with a non-2xx status.
PageRequests(endpoint, id, n, failed) ==
    [i \in 1..n |-> Request(endpoint, id, "ok")]
        \o (IF failed THEN <<Request(endpoint, id, "error")>> ELSE <<>>)

(***************************************************************************)
(* get_channel_json, get_playlist_json                                     *)
(***************************************************************************)
\* Mutant: the request is made before the cache is looked at.
get_channel_json_fetch_first(c, channel_id, for_username, answer) ==
    LET fname == "channel_" \o channel_id
        req(status) == <<Request("channels", channel_id, status)>>
    IN  IF answer = "error" THEN Raised(c, req("error"), "HTTPError")
        ELSE IF answer = "empty" THEN Raised(c, req("ok"), "IndexError")
        ELSE Returned(save_json(c, fname, ChannelDoc(channel_id)), req("ok"),
                      ChannelDoc(channel_id))

get_channel_json(c, channel_id, for_username, answer) ==
    LET fname == "channel_" \o channel_id
        channel_json == load_json(c, fname)
        req(status) == <<Request("channels", channel_id, status)>>
    IN  IF channel_json # None THEN Returned(c, <<>>, channel_json)
        ELSE IF answer = "error" THEN Raised(c, req("error"), "HTTPError")
        ELSE IF answer = "empty" THEN Raised(c, req("ok"), "IndexError")
        ELSE Returned(save_json(c, fname, ChannelDoc(channel_id)), req("ok"),
                      ChannelDoc(channel_id))

get_playlist_json(c, playlist_id, answer) ==
    LET fname == "playlist_" \o playlist_id
        playlist_json == load_json(c, fname)
        req(status) == <<Request("playlists", playlist_id, status)>>
    IN  IF playlist_json # None THEN Returned(c, <<>>, playlist_json)
        ELSE IF answer = "error" THEN Raised(c, req("error"), "HTTPError")
        ELSE IF answer = "empty" \/ playlist_id \notin PlaylistIds
        THEN Raised(c, req("ok"), "IndexError")
        ELSE Returned(save_json(c, fname, PlaylistDoc(playlist_id)), req("ok"),
                      PlaylistDoc(playlist_id))

(***************************************************************************)
(* get_videos_json: the pages are accumulated and saved once, at the end.  *)
(* The request of page failAt is answered with a non-2xx status (0: none). *)
(***************************************************************************)
\* Mutant: the page answered with a non-2xx status is requested again.
get_videos_json_retries(c, playlist_id, pages, failAt) ==
    LET fname == "playlist_" \o playlist_id \o "_videos"
        items == load_json(c, fname)
        all == ListDoc(Flatten(pages, Len(pages)))
    IN  IF items # None THEN Returned(c, <<>>, items)
        ELSE Returned(save_json(c, fname, all),
                 PageRequests("playlistItems", playlist_id,
                              IF failAt = 0 THEN 0 ELSE failAt - 1, failAt # 0)
                 \o PageRequests("playlistItems", playlist_id, Len(pages), FALSE),
                 all)

get_videos_json(c, playlist_id, pages, failAt) ==
    LET fname == "playlist_" \o playlist_id \o "_videos"
        items == load_json(c, fname)
        all == ListDoc(Flatten(pages, Len(pages)))
    IN  IF items # None THEN Returned(c, <<>>, items)
        ELSE IF playlist_id \notin PlaylistIds
        THEN Raised(c, PageRequests("playlistItems", playlist_id, 0, TRUE),
                    "HTTPError")
        ELSE IF failAt # 0
        THEN Raised(c, PageRequests("playlistItems", playlist_id, failAt - 1,
                                    TRUE), "HTTPError")
        ELSE Returned(save_json(c, fname, all),
                      PageRequests("playlistItems", playlist_id, Len(pages),
                                   FALSE), all)

(***************************************************************************)
(* merge_playlists.  The walk over the playlists carries the cache, the    *)
(* merged items and the exception that ended it ("none" while it runs).    *)
(***************************************************************************)
os_remove(c, name) == [c EXCEPT ![name] = Absent]

\* list.remove(item): the list without the first element equal to item
RemoveFirst(list, item) ==
    LET i == CHOOSE k \in 1..Len(list) :
                 list[k] = item /\ \A j \in 1..(k - 1) : list[j] # item
    IN  SubSeq(list, 1, i - 1) \o SubSeq(list, i + 1, Len(list))

MergeState(c, merged, raised) ==
    [cache |-> c, merged |-> merged, raised |-> raised]

\* The merge of one playlist into the custom one: its videos are appended,
\* its two cache files removed, its entry removed from the channel's list.
MergeOne(st, channel_id, item, playlist_json) ==
    LET vfile == FileOf("playlist_" \o item.id \o "_videos")
        pfile == FileOf("playlist_" \o item.id)
        lname == "channel_" \o channel_id \o "_playlists"
        merged == st.merged \o playlist_json.items
        c1 == os_remove(st.cache, vfile)
        c2 == os_remove(c1, pfile)
        channel_playlists_json == load_json(c2, lname)
    IN  IF ~FileExists(c1, pfile)
        THEN MergeState(c1, merged, "FileNotFoundError")
        ELSE IF channel_playlists_json = None
        THEN MergeState(c2, merged, "AttributeError")
        ELSE IF item \notin Range(channel_playlists_json.items)
        THEN MergeState(c2, merged, "ValueError")
        ELSE MergeState(
                 save_json(c2, lname,
                     ListDoc(RemoveFirst(channel_playlists_json.items, item))),
                 merged, "none")

\* One turn of `for item in items`
MergeStep(st, channel_id, item, optimize_number) ==
    LET playlist_json == load_json(st.cache, "playlist_" \o item.id \o "_videos")
    IN  IF playlist_json = None
        THEN MergeState(st.cache, st.merged, "TypeError")
        ELSE IF optimize_number >= 3
        THEN IF Len(playlist_json.items) < optimize_number
             THEN MergeOne(st, channel_id, item, playlist_json)
             ELSE st
        ELSE IF optimize_number = 0
        THEN MergeOne(st, channel_id, item, playlist_json)
        ELSE st

RECURSIVE MergeLoop(_, _, _, _, _)
MergeLoop(st0, channel_id, items, i, optimize_number) ==
    Bind(st0, LAMBDA st :
        IF i > Len(items) \/ st.raised # "none" THEN st
        ELSE MergeLoop(MergeStep(st, channel_id, items[i], optimize_number),
                       channel_id, items, i + 1, optimize_number))

\* The uploads playlist after the walk: merged when optimize_number is 0 or
\* when it holds fewer than optimize_number videos.
MergeUploads(st, channel_id, upload_id, optimize_number) ==
    LET uploads_playlist_json == load_json(st.cache, "playlist_" \o upload_id \o "_videos")
        vfile == FileOf("playlist_" \o upload_id \o "_videos")
        pfile == FileOf("playlist_" \o upload_id)
        lname == "channel_" \o channel_id \o "_playlists"
        c1 == os_remove(st.cache, vfile)
        c2 == os_remove(c1, pfile)
        channel_playlists_json == load_json(c2, lname)
        item == [id |-> upload_id]
    IN  IF uploads_playlist_json = None
        THEN MergeState(st.cache, st.merged, "TypeError")
        ELSE IF optimize_number >= 3
                /\ Len(uploads_playlist_json.items) >= optimize_number
        THEN st
        ELSE IF ~FileExists(c1, pfile)
        THEN MergeState(c1, st.merged \o uploads_playlist_json.items,
                        "FileNotFoundError")
        ELSE IF channel_playlists_json = None
        THEN MergeState(c2, st.merged \o uploads_playlist_json.items, "TypeError")
        ELSE MergeState(
                 save_json(c2, lname,
                     IF item \in Range(channel_playlists_json.items)
                     THEN ListDoc(RemoveFirst(channel_playlists_json.items, item))
                     ELSE channel_playlists_json),
                 st.merged \o uploads_playlist_json.items, "none")

\* Mutant: every accumulated item is kept.
Unique_keeps_duplicates(items, i, seen) == SubSeq(items, i, Len(items))

RECURSIVE Unique(_, _, _)
\* The items whose videoId has not been seen before, in order
Unique(items, i, seen) ==
    IF i > Len(items) THEN <<>>
    ELSE IF items[i].videoId \in seen THEN Unique(items, i + 1, seen)
    ELSE <<items[i]>> \o Unique(items, i + 1, seen \cup {items[i].videoId})

\* item["snippet"]["position"] = i
Renumber(items) == [i \in 1..Len(items) |-> [items[i] EXCEPT !.position = i - 1]]

new_channel_playlists_json == [kind |-> "dict", id |-> "custom"]

CustomPlaylistDoc(channel_id, channel_json, optimize_number) ==
    [kind |-> "playlist", id |-> "custom", channelId |-> channel_id,
     channelTitle |-> channel_json.title,
     title |-> IF optimize_number >= 3 THEN "Other Videos" ELSE "All Videos"]

\* merge_playlists(channel_id, items, optimize_number).  Iterating a dict
\* yields its keys, and "kind"["id"] is a TypeError.
merge_playlists(c, channel_id, items, optimize_number) ==
    Bind(IF items.kind # "list"
         THEN MergeState(c, <<>>, "TypeError")
         ELSE MergeLoop(MergeState(c, <<>>, "none"), channel_id,
                        items.items, 1, optimize_number),
         LAMBDA walked :
    Bind(load_json(walked.cache, "channel_" \o channel_id),
         LAMBDA channel_json :
    Bind(IF walked.raised # "none" THEN walked
         ELSE IF channel_json = None
         THEN MergeState(walked.cache, walked.merged, "TypeError")
         ELSE MergeUploads(walked, channel_id, channel_json.uploads,
                           optimize_number),
         LAMBDA st :
    LET c1 == save_json(st.cache, "channel_" \o channel_id \o "_playlists",
                        new_channel_playlists_json)
        c2 == save_json(c1, "playlist_custom",
                        CustomPlaylistDoc(channel_id, channel_json, optimize_number))
        c3 == save_json(c2, "playlist_custom_videos",
                        ListDoc(Renumber(Unique(st.merged, 1, {}))))
    IN  IF st.raised # "none" THEN Raised(st.cache, <<>>, st.raised)
        ELSE Returned(c3, <<>>, new_channel_playlists_json))))

(***************************************************************************)
(* get_channel_playlists_json: optimize_number is looked at only when the  *)
(* list is cached; a fetched list is saved after every page.               *)
(***************************************************************************)
get_channel_playlists_json(c, channel_id, optimize_number, pages, failAt) ==
    LET fname == "channel_" \o channel_id \o "_playlists"
        items == load_json(c, fname)
        n == optimize_number.n
        got == IF failAt = 0 THEN Len(pages) ELSE failAt - 1
        reqs == PageRequests("playlists", channel_id, got, failAt # 0)
        fetched == ListDoc(Flatten(pages, got))
        saved == IF got = 0 THEN c ELSE save_json(c, fname, fetched)
    IN  IF items # None
        THEN IF optimize_number.isNone THEN Returned(c, <<>>, items)
             ELSE IF n >= 3 \/ n = 0 THEN merge_playlists(c, channel_id, items, n)
             ELSE IF n = 1 \/ n = 2 THEN Raised(c, <<>>, "ValueError")
             ELSE Returned(c, <<>>, items)
        ELSE IF failAt # 0 THEN Raised(saved, reqs, "HTTPError")
        ELSE Returned(saved, reqs, fetched)

(***************************************************************************)
(* The wrappers called in any order on one cache directory.                *)
(***************************************************************************)
PlatformCacheFiles ==
    CacheFiles
    \cup {FileOf("channel_" \o ch) : ch \in ChannelIds}
    \cup {FileOf("channel_" \o ch \o "_playlists") : ch \in ChannelIds}
    \cup {FileOf("playlist_" \o p) : p \in PlaylistIds \cup {"custom"}}
    \cup {FileOf("playlist_" \o p \o "_videos") : p \in PlaylistIds \cup {"custom"}}

download_idle ==
    UNCHANGED <<inputs, pc, mode, batches, workers, hist, dirs,
                overall_succeeded, overall_failed, error, log, authors_arg>>

GetChannelJson(channel_id, answer) ==
    /\ pc = "cache"
    /\ \E out \in {get_channel_json(cache, channel_id, FALSE, answer)} :
           /\ cache' = out.cache
           /\ last_call' = CallOf("get_channel_json", channel_id,
                                  "channel_" \o channel_id, cache, out)
    /\ download_idle

GetChannelPlaylistsJson(channel_id, optimize_number, pages, failAt) ==
    /\ pc = "cache"
    /\ \E out \in {get_channel_playlists_json(cache, channel_id,
                                             optimize_number, pages, failAt)} :
           /\ cache' = out.cache
           /\ last_call' = [CallOf("get_channel_playlists_json", channel_id,
                                   "channel_" \o channel_id \o "_playlists",
                                   cache, out)
                               EXCEPT !.opt = optimize_number]
    /\ download_idle

GetPlaylistJson(playlist_id, answer) ==
    /\ pc = "cache"
    /\ \E out \in {get_playlist_json(cache, playlist_id, answer)} :
           /\ cache' = out.cache
           /\ last_call' = CallOf("get_playlist_json", playlist_id,
                                  "playlist_" \o playlist_id, cache, out)
    /\ download_idle

GetVideosJson(playlist_id, pages, failAt) ==
    /\ pc = "cache"
    /\ \E out \in {get_videos_json(cache, playlist_id, pages, failAt)} :
           /\ cache' = out.cache
           /\ last_call' = CallOf("get_videos_json", playlist_id,
                                  "playlist_" \o playlist_id \o "_videos",
                                  cache, out)
    /\ download_idle

GetVideosAuthorsInfo(ids, answer) ==
    /\ pc = "cache"
    /\ \E out \in {get_videos_authors_info(cache, ids, answer)} :
           /\ cache' = out.cache
           /\ last_call' = CallOf("get_videos_authors_info", "",
                                  "videos_channels", cache, out)
    /\ download_idle

\* The files a first run can find unparseable.
CorruptibleFiles == {FileOf("channel_UC1"), FileOf("playlist_PL1")}

\* A cache directory as a first run finds it: empty, or with one file that
\* does not parse.
InitCache ==
    /\ videos_ids = <<>>
    /\ max_concurrency = 1
    /\ engine = [v \in VideoIds |-> "ok"]
    /\ pc = "cache"
    /\ mode = "none"
    /\ batches = <<>>
    /\ workers = <<>>
    /\ hist = {}
    /\ dirs = {}
    /\ overall_succeeded = <<>>
    /\ overall_failed = <<>>
    /\ error = NoError
    /\ log = {}
    /\ authors_arg = <<>>
    /\ cache \in {[f \in PlatformCacheFiles |-> Absent]}
                 \cup {[f \in PlatformCacheFiles |->
                           IF f = g THEN Corrupt ELSE Absent] :
                       g \in CorruptibleFiles}
    /\ last_call = NoCall
    /\ NotResolving

\* A parseable entry under the key: the call will not consult the platform.
Cached(key) == load_json(cache, key) # None

\* The platform's answers are drawn only for the calls that can ask for them.
NextCache ==
    \/ \E ch \in ChannelIds :
           IF Cached("channel_" \o ch) THEN GetChannelJson(ch, "found")
           ELSE \E answer \in LookupAnswers : GetChannelJson(ch, answer)
    \/ \E ch \in ChannelIds, o \in OptimizeNumbers :
           IF Cached("channel_" \o ch \o "_playlists")
           THEN GetChannelPlaylistsJson(ch, o, <<PlatformPlaylists(ch)>>, 0)
           ELSE \E pages \in Pagings(PlatformPlaylists(ch), MaxPages) :
                    \E failAt \in 0..Len(pages) :
                        GetChannelPlaylistsJson(ch, o, pages, failAt)
    \/ \E p \in PlaylistIds \cup {"custom"} :
           IF Cached("playlist_" \o p) THEN GetPlaylistJson(p, "found")
           ELSE \E answer \in LookupAnswers : GetPlaylistJson(p, answer)
    \/ \E p \in PlaylistIds \cup {"custom"} :
           IF Cached("playlist_" \o p \o "_videos")
           THEN GetVideosJson(p, <<PlatformVideos(p)>>, 0)
           ELSE \E pages \in Pagings(PlatformVideos(p), MaxPages) :
                    \E failAt \in 0..Len(pages) :
                        GetVideosJson(p, pages, failAt)
    \/ \E ids \in SeqsUpTo(VideoIds, 1) :
           IF Cached("videos_channels") THEN GetVideosAuthorsInfo(ids, "items")
           ELSE \E answer \in VideosAnswers : GetVideosAuthorsInfo(ids, answer)

SpecCache == InitCache /\ [][NextCache]_vars

(***************************************************************************)
(* C10: whenever a wrapper is called while a parseable cache entry exists  *)
(* under the key of its resource (channel_<id>, channel_<id>_playlists,    *)
(* playlist_<id>, playlist_<id>_videos, videos_channels), that call issues *)
(* no HTTP request.                                                        *)
(***************************************************************************)
Wrappers ==
    {"get_channel_json", "get_channel_playlists_json", "get_playlist_json",
     "get_videos_json", "get_videos_authors_info"}

C10_CachedCallIssuesNoRequest ==
    (last_call.fn \in Wrappers /\ last_call.hit) => last_call.requests = <<>>

\* A run of get_channel_json on a cached channel, with a cache in which an
\* earlier call fetched and saved the entry.
C10_Witness ==
    /\ last_call.fn = "get_channel_json"
    /\ last_call.hit
    /\ last_call.raised = "none"
    /\ cache[FileOf("channel_UC1")] = ChannelDoc("UC1")

(***************************************************************************)
(* C11: a cache entry of a paginated resource is never partial: when a     *)
(* paginated fetch (get_channel_playlists_json, get_videos_json) is        *)
(* aborted by a non-2xx response on a page after the first, no entry       *)
(* exists under the key of the resource afterwards.                        *)
(***************************************************************************)
Paginated == {"get_channel_playlists_json", "get_videos_json"}

\* The cache key of the resource of the last call
KeyOfCall(call) ==
    IF call.fn = "get_channel_json" THEN "channel_" \o call.arg
    ELSE IF call.fn = "get_channel_playlists_json"
    THEN "channel_" \o call.arg \o "_playlists"
    ELSE IF call.fn = "get_playlist_json" THEN "playlist_" \o call.arg
    ELSE IF call.fn = "get_videos_json" THEN "playlist_" \o call.arg \o "_videos"
    ELSE "videos_channels"

\* The last call fetched at least one page and was aborted on a later one.
AbortedAfterFirstPage ==
    /\ last_call.fn \in Paginated
    /\ last_call.raised = "HTTPError"
    /\ Len(last_call.requests) >= 2

C11_NoPartialEntry ==
    AbortedAfterFirstPage => load_json(cache, KeyOfCall(last_call)) = None

\* The part of C11 that holds: get_videos_json saves once, after the last page.
C11_VideosNeverPartial ==
    (AbortedAfterFirstPage /\ last_call.fn = "get_videos_json")
        => load_json(cache, KeyOfCall(last_call)) = None

(***************************************************************************)
(* C13: get_channel_playlists_json called with optimize number 1 or 2      *)
(* fails with ValueError in every cache state, whether the channel's       *)
(* playlist list is cached or has to be fetched.                           *)
(***************************************************************************)
OptimizeOneOrTwo(call) ==
    /\ call.fn = "get_channel_playlists_json"
    /\ ~call.opt.isNone
    /\ call.opt.n \in {1, 2}

C13_OneOrTwoAlwaysFails ==
    OptimizeOneOrTwo(last_call) => last_call.raised = "ValueError"

\* The part of C13 that holds: the call fails when the list is cached.
C13_OneOrTwoFailsWhenCached ==
    (OptimizeOneOrTwo(last_call) /\ last_call.hit)
        => (last_call.raised = "ValueError" /\ last_call.requests = <<>>)

(***************************************************************************)
(* Identifiers.  An identifier is the sequence of its comma-separated      *)
(* parts; a part is its first two characters when they are "PL" or "UC"    *)
(* (else ""), the number of characters after them, and the widest class of *)
(* its characters: "alnum" [a-zA-Z0-9], "word" [-_a-zA-Z0-9], "other".     *)
(* `text` stands for the part in cache keys and requests.  `newline` tells *)
(* whether a line feed, not counted in the rest, ends the part.            *)
(***************************************************************************)
Part(text, prefix, tail, chars) ==
    [text |-> text, prefix |-> prefix, tail |-> tail, chars |-> chars,
     newline |-> FALSE]

WithNewline(part) == [part EXCEPT !.newline = TRUE]

\* The characters before the final line feed, if any
BodyLen(part) == Len(part.prefix) + part.tail

PartLen(part) == BodyLen(part) + (IF part.newline THEN 1 ELSE 0)

RECURSIVE IdLen(_, _)
\* len(self.youtube_id): the parts and the commas between them
IdLen(id, i) ==
    IF i > Len(id) THEN 0
    ELSE PartLen(id[i]) + (IF i < Len(id) THEN 1 ELSE 0) + IdLen(id, i + 1)

\* In the three patterns `$` matches at the end of the string and also
\* before a line feed that ends the string.
\* re.match(r"^PL[-_a-zA-Z0-9]{16,}$", id)
MatchesPlaylist(part) ==
    part.prefix = "PL" /\ part.chars \in {"alnum", "word"} /\ part.tail >= 16

\* re.match(r"^UC[-_a-zA-Z0-9]{22,}$", id)
MatchesChannel(part) ==
    part.prefix = "UC" /\ part.chars \in {"alnum", "word"} /\ part.tail >= 22

\* re.match(r"^[a-zA-Z0-9]+$", id)
MatchesUser(part) == part.chars = "alnum" /\ BodyLen(part) >= 1

\* get_id_type(id) for a string: a comma matches none of the three patterns
get_id_type(id) ==
    IF Len(id) # 1 THEN NoneId
    ELSE IF MatchesPlaylist(id[1]) THEN "playlist"
    ELSE IF MatchesChannel(id[1]) THEN "channel"
    ELSE IF MatchesUser(id[1]) THEN "user"
    ELSE NoneId

\* validate_id(): "ValueError" or "none".  run() does not call it.
validate_id(id) ==
    LET collection_type == get_id_type(id)
    IN  IF collection_type = "channel" /\ IdLen(id, 1) > 24 THEN "ValueError"
        ELSE IF Len(id) > 1 /\ collection_type # "playlist" THEN "ValueError"
        ELSE IF collection_type = NoneId THEN "ValueError"
        ELSE "none"

\* youtube_id.split(",")
SplitIds(id) == [i \in 1..Len(id) |-> id[i].text]

PL1Part == Part("PL1", "PL", 16, "word")
PL2Part == Part("PL2", "PL", 16, "word")

\* A channel id, a channel id of 25 characters, a username, a playlist id,
\* two playlist ids joined by a comma, and a string of no known shape.
Identifiers ==
    {<<Part("UC1", "UC", 22, "word")>>,
     <<Part("UC1long", "UC", 23, "word")>>,
     <<Part("user1", "", 5, "alnum")>>,
     <<PL1Part>>,
     <<PL1Part, PL2Part>>,
     <<Part("bad", "", 3, "other")>>}

\* What the platform knows under a name
KnownChannelNames == {"UC1", "user1"}

\* yt_dlp.DateRange(self.dateafter): an expression outside the grammar, a
\* range that holds every video, a range that holds none.
DateAfters == {"invalid", "all", "none"}

skip_outofrange_videos(date_range, item) == date_range = "all"

\* The videos the platform lists as deleted, unavailable or private
DeletedVideos == {"d"}

\* skip_deleted_videos
skip_deleted_videos(item) == item.videoId \notin DeletedVideos

(***************************************************************************)
(* extract_playlists_details_from.  The calls of one phase of run() are    *)
(* threaded through a record of the cache, the requests issued so far, the *)
(* exception raised and the last result.  The platform answers request     *)
(* number k of the phase with a non-2xx status (k = 0: none) and cuts the  *)
(* lists in two pages when `split`.                                        *)
(***************************************************************************)
Start(c) == Returned(c, <<>>, None)

Thread(st, out) ==
    [cache |-> out.cache, requests |-> st.requests \o out.requests,
     raised |-> out.raised, result |-> out.result]

LookupAnswer(st, k, known) ==
    IF Len(st.requests) + 1 = k THEN "error"
    ELSE IF known THEN "found" ELSE "empty"

PageFailAt(st, k, pages) ==
    IF k > Len(st.requests) /\ k <= Len(st.requests) + Len(pages)
    THEN k - Len(st.requests) ELSE 0

Paged(list, split) ==
    IF split /\ Len(list) >= 2
    THEN <<SubSeq(list, 1, 1), SubSeq(list, 2, Len(list))>>
    ELSE <<list>>

\* Playlist(playlist_id, title, description, creator_id, creator_name)
Playlist(playlist_id, playlist_json) ==
    [playlist_id |-> playlist_id, title |-> playlist_json.title,
     creator_id |-> playlist_json.channelId,
     creator_name |-> playlist_json.channelTitle]

\* Playlist.from_id(playlist_id)
from_id(st, playlist_id, k) ==
    Bind(Thread(st, get_playlist_json(st.cache, playlist_id,
                        LookupAnswer(st, k, playlist_id \in PlaylistIds))),
         LAMBDA out :
             IF out.raised # "none" THEN out
             ELSE [out EXCEPT !.result = Playlist(playlist_id, out.result)])

Resolved(st, raised, ids, main, uploads) ==
    [cache |-> st.cache, requests |-> st.requests, raised |-> raised,
     ids |-> ids, main_channel_id |-> main, uploads_playlist_id |-> uploads]

\* The part of extract_playlists_details_from that computes playlist_ids
playlist_ids_of(c, collection_type, id, optimize_number, k, split) ==
    IF collection_type \in {"user", "channel"}
    THEN Bind(Thread(Start(c),
                  get_channel_json(c, id[1].text, collection_type = "user",
                      LookupAnswer(Start(c), k, id[1].text \in KnownChannelNames))),
              LAMBDA s1 :
         IF s1.raised # "none"
         THEN Resolved(s1, s1.raised, <<>>, NoneId, NoneId)
         ELSE
         Bind(Thread(s1,
                  get_channel_playlists_json(s1.cache, s1.result.id,
                      optimize_number,
                      Paged(PlatformPlaylists(s1.result.id), split),
                      PageFailAt(s1, k, Paged(PlatformPlaylists(s1.result.id), split)))),
              LAMBDA s2 :
         LET channel_json == s1.result
             channel_playlists_json == s2.result
         IN  IF s2.raised # "none"
             THEN Resolved(s2, s2.raised, <<>>, NoneId, NoneId)
             ELSE IF ~optimize_number.isNone /\ optimize_number.n = 0
             THEN Resolved(s2, "none", <<"custom">>, channel_json.id, NoneId)
             ELSE IF channel_playlists_json.kind # "list"
             THEN Resolved(s2, "TypeError", <<>>, NoneId, NoneId)
             ELSE Resolved(s2, "none",
                      [i \in 1..Len(channel_playlists_json.items) |->
                          channel_playlists_json.items[i].id]
                          \o <<channel_json.uploads>>,
                      channel_json.id, channel_json.uploads)))
    ELSE IF collection_type = "playlist"
    THEN Bind(from_id(Start(c), SplitIds(id)[1], k), LAMBDA s1 :
             IF s1.raised # "none"
             THEN Resolved(s1, s1.raised, <<>>, NoneId, NoneId)
             ELSE Resolved(s1, "none", SplitIds(id), s1.result.creator_id, NoneId))
    ELSE Resolved(Start(c), "NotImplementedError", <<>>, NoneId, NoneId)

RECURSIVE from_ids(_, _, _, _, _)
\* [Playlist.from_id(playlist_id) for playlist_id in list(set(playlist_ids))]
\* with `order` the order in which the set is walked
from_ids(st, order, i, k, acc) ==
    IF i > Len(order) THEN [st EXCEPT !.result = acc]
    ELSE Bind(from_id(st, order[i], k), LAMBDA out :
             IF out.raised # "none" THEN out
             ELSE from_ids(out, order, i + 1, k, Append(acc, out.result)))

\* Mutant: the ids are walked as listed, without set().
Orders_keeps_duplicates(ids) == {ids}

\* The orders in which list(set(playlist_ids)) can come
Orders(ids) ==
    {o \in SeqsUpTo(Range(ids), Cardinality(Range(ids))) :
        Len(o) = Cardinality(Range(ids)) /\ Range(o) = Range(ids)}

extract_playlists_details_from(c, collection_type, id, optimize_number, k, split, order) ==
    Bind(playlist_ids_of(c, collection_type, id, optimize_number, k, split),
         LAMBDA pre :
    IF pre.raised # "none"
    THEN [pre EXCEPT !.ids = <<>>] @@ [playlists |-> <<>>]
    ELSE
    Bind(from_ids(Returned(pre.cache, pre.requests, None), order, 1, k, <<>>),
         LAMBDA out :
    IF out.raised # "none"
    THEN Resolved(out, out.raised, <<>>, NoneId, NoneId) @@ [playlists |-> <<>>]
    ELSE Resolved(out, "none", pre.ids, pre.main_channel_id,
                  pre.uploads_playlist_id) @@ [playlists |-> out.result]))

(***************************************************************************)
(* extract_videos_info without files                                       *)
(***************************************************************************)
RECURSIVE filter_videos(_, _, _, _)
\* all_videos.update({videoId: v}) for the items of videos_json that are in
\* range and not deleted: the new keys, in order
filter_videos(items, i, date_range, keys) ==
    IF i > Len(items) THEN keys
    ELSE filter_videos(items, i + 1, date_range,
             IF /\ skip_outofrange_videos(date_range, items[i])
                /\ skip_deleted_videos(items[i])
                /\ items[i].videoId \notin Range(keys)
             THEN Append(keys, items[i].videoId) ELSE keys)

RECURSIVE all_videos_of(_, _, _, _, _, _)
\* for playlist in self.playlists: get_videos_json, filter, update
all_videos_of(st0, pls, i, date_range, k, split) ==
    Bind(st0, LAMBDA st :
    IF i > Len(pls) THEN st
    ELSE LET pages == Paged(PlatformVideos(pls[i].playlist_id), split)
         IN  Bind(Thread(st, get_videos_json(st.cache, pls[i].playlist_id,
                                 pages, PageFailAt(st, k, pages))),
                  LAMBDA out :
             IF out.raised # "none" THEN out
             ELSE all_videos_of(
                      [out EXCEPT !.result =
                          filter_videos(out.result.items, 1, date_range, st.result)],
                      pls, i + 1, date_range, k, split)))

VideosDoc(keys) == [kind |-> "videos", ids |-> keys]

\* extract_videos_info(): the key looked up is "videos.json", the key saved
\* is "videos"; `assigned` tells whether self.videos_ids was assigned.
extract_videos_info(c, pls, date_range, k, split) ==
    LET all_videos == load_json(c, "videos.json")
    IN  IF all_videos # None
        THEN Returned(c, <<>>, <<>>) @@ [assigned |-> FALSE]
        ELSE Bind(all_videos_of(Returned(c, <<>>, <<>>), pls, 1, date_range,
                                k, split),
                  LAMBDA out :
             IF out.raised # "none" THEN out @@ [assigned |-> FALSE]
             ELSE [out EXCEPT !.cache = save_json(out.cache, "videos",
                                                  VideosDoc(out.result))]
                      @@ [assigned |-> TRUE])

(***************************************************************************)
(* extract_videos_info(), file mode.  A file is the list of its lines; a   *)
(* line, after strip().split(","), is the header (it holds the field       *)
(* "video_id"), a row of six fields or more, or a line of fewer fields.    *)
(* Field 0 of a row is a video id, with or without the watch URL before    *)
(* it; field 5 is the size: decimal digits (n, or -1 when there is none)   *)
(* and the characters after them.                                          *)
(***************************************************************************)
Size(n, suffix) == [n |-> n, suffix |-> suffix]

Header == [kind |-> "header"]
ShortLine == [kind |-> "short"]
Row(video_id, url, size) ==
    [kind |-> "row", video_id |-> video_id, url |-> url, size |-> size]

\* line[0].replace("https://www.youtube.com/watch?v=", "")
WithoutWatchUrl(line) == line.video_id

\* len(s) for the text of a size field
SizeLen(size) ==
    (IF size.n < 0 THEN 0 ELSE IF size.n < 10 THEN 1 ELSE IF size.n < 100 THEN 2 ELSE 3)
    + Len(size.suffix)

Value(v) == [raised |-> "none", value |-> v]
Raise(exc) == [raised |-> exc, value |-> 0]

\* float(video["video_size"][:-2]): the text without its last two
\* characters; ValueError when float() cannot parse what is left.
FloatOfAllButLastTwo(size) ==
    IF size.n < 10 THEN Raise("ValueError") ELSE Value(size.n \div 10)

KB == 1024

\* The branches of lines 337-349 for one video: the number of bytes, or
\* the exception that leaves extract_videos_info.  An empty field was
\* replaced by the integer 0, which cannot be sliced.
ConvertSize(size) ==
    IF SizeLen(size) = 0 THEN Raise("TypeError")
    ELSE IF size.suffix \in {"K", "M", "G"}
    THEN Bind(FloatOfAllButLastTwo(size),
              LAMBDA f :
         IF f.raised # "none" THEN f
         ELSE IF size.suffix = "K" THEN Value(f.value * KB)
         ELSE IF size.suffix = "M" THEN Value(f.value * KB * KB)
         ELSE Value(f.value * KB * KB * KB))
    ELSE IF size.n = 0 /\ size.suffix = "" THEN Value(0)
    ELSE Raise("SystemExit")

\* self.videos of one file: lines[1:] when lines[0] holds "video_id"
DataLines(lines) ==
    IF lines[1].kind = "header" THEN SubSeq(lines, 2, Len(lines)) ELSE lines

\* The list comprehension of lines 312-333; line[5] raises on a short line
VideosOfLines(lines) ==
    IF \E i \in 1..Len(lines) : lines[i].kind # "row" THEN Raise("IndexError")
    ELSE Value([i \in 1..Len(lines) |->
                   [video_id |-> WithoutWatchUrl(lines[i]),
                    video_size |-> lines[i].size]])

RECURSIVE ConvertSizes(_, _)
\* for video in self.videos: the list with the sizes converted up to the
\* first video whose conversion raises, and that exception
ConvertSizes(vs, i) ==
    IF i > Len(vs) THEN [videos |-> vs, raised |-> "none"]
    ELSE Bind(ConvertSize(vs[i].video_size),
              LAMBDA b :
         IF b.raised # "none" THEN [videos |-> vs, raised |-> b.raised]
         ELSE ConvertSizes([vs EXCEPT ![i].video_size = b.value], i + 1))

RECURSIVE Sum(_, _)
Sum(vs, i) == IF i > Len(vs) THEN 0 ELSE vs[i].video_size + Sum(vs, i + 1)

\* shutil.disk_usage and the key pressed at the prompt: the free space
\* covers the requirement, or the user presses a key, or interrupts.
Spaces == {"free", "key", "interrupt"}

FileState(vs, total, ids, assigned, raised) ==
    [videos |-> vs, total_size |-> total, videos_ids |-> ids,
     assigned |-> assigned, raised |-> raised]

\* The body of `for file in self.files` for one file
extract_videos_of_file(st, lines, space) ==
    IF Len(lines) = 0 THEN [st EXCEPT !.raised = "IndexError"]
    ELSE Bind(VideosOfLines(DataLines(lines)),
              LAMBDA vs :
         IF vs.raised # "none" THEN [st EXCEPT !.raised = vs.raised]
         ELSE Bind(ConvertSizes(vs.value, 1),
                   LAMBDA conv :
              IF conv.raised # "none"
              THEN [st EXCEPT !.videos = conv.videos, !.raised = conv.raised]
              ELSE Bind(Sum(conv.videos, 1),
                        LAMBDA total :
                   IF total > 0 /\ space = "interrupt"
                   THEN [st EXCEPT !.videos = conv.videos,
                                   !.total_size = total,
                                   !.raised = "SystemExit"]
                   ELSE FileState(conv.videos, total,
                                  [i \in 1..Len(conv.videos) |->
                                      conv.videos[i].video_id],
                                  TRUE, "none"))))

RECURSIVE extract_videos_of_files(_, _, _, _)
extract_videos_of_files(st, fs, i, space) ==
    IF i > Len(fs) \/ st.raised # "none" THEN st
    ELSE extract_videos_of_files(extract_videos_of_file(st, fs[i], space),
                                 fs, i + 1, space)

(***************************************************************************)
(* run(), from its first statement                                         *)
(***************************************************************************)
RunCacheFiles ==
    PlatformCacheFiles
    \cup {FileOf("channel_user1"), FileOf("channel_UC1long"),
          FileOf("videos"), FileOf("videos.json")}

EmptyDir == [f \in RunCacheFiles |-> Absent]

\* The channel, its playlist list, and the detail and the videos of every
\* playlist, as a run that fetched them all leaves them.
FullDir ==
    [f \in RunCacheFiles |->
        IF f = FileOf("channel_UC1") THEN ChannelDoc("UC1")
        ELSE IF f = FileOf("channel_UC1_playlists")
        THEN ListDoc(PlatformPlaylists("UC1"))
        ELSE IF \E p \in PlaylistIds : f = FileOf("playlist_" \o p)
        THEN PlaylistDoc(CHOOSE p \in PlaylistIds : f = FileOf("playlist_" \o p))
        ELSE IF \E p \in PlaylistIds : f = FileOf("playlist_" \o p \o "_videos")
        THEN ListDoc(PlatformVideos(
                 CHOOSE p \in PlaylistIds : f = FileOf("playlist_" \o p \o "_videos")))
        ELSE Absent]

\* The same for a run on the username: the channel is under channel_user1.
UserDir ==
    [FullDir EXCEPT ![FileOf("channel_UC1")] = Absent,
                    ![FileOf("channel_user1")] = ChannelDoc("user1")]

\* A channel whose playlist list holds its uploads playlist.
UploadsListedDir ==
    [FullDir EXCEPT ![FileOf("channel_UC1_playlists")] =
                        ListDoc(<<[id |-> "PL1"], [id |-> "UU1"]>>)]

\* What a merge of the playlists of fewer than MaxOptimize videos leaves.
MergedDir ==
    merge_playlists(FullDir, "UC1", ListDoc(PlatformPlaylists("UC1")),
                    MaxOptimize).cache

DataDirs == {EmptyDir, FullDir, UserDir, UploadsListedDir, MergedDir}

FailPoints == 0..MaxFail

Abort(exc) == pc' = "aborted" /\ error' = [type |-> exc, id |-> ""]

download_pending ==
    UNCHANGED <<max_concurrency, engine, mode, batches, workers, hist, dirs,
                overall_succeeded, overall_failed, log, authors_arg, last_call,
                youtube_id, optimize, data_dir, files, library>>

ValidateDateafterInput ==
    /\ pc = "start"
    /\ IF dateafter = "invalid" THEN Abort("ValueError")
       ELSE pc' = "prepare" /\ UNCHANGED error
    /\ download_pending
    /\ UNCHANGED <<videos_ids, cache, dateafter, playlists, main_channel_id,
                   uploads_playlist_id, api_requests, resolved, videos,
                   total_size>>

\* Mutant: the download is entered right after the build folder is prepared.
PrepareBuildFolder_then_download ==
    /\ pc = "prepare"
    /\ cache' = data_dir
    /\ pc' = "download"
    /\ download_pending
    /\ UNCHANGED <<videos_ids, error, dateafter, playlists, main_channel_id,
                   uploads_playlist_id, api_requests, resolved, videos,
                   total_size>>

\* The cache directory is emptied, then the JSON files of data_dir copied.
PrepareBuildFolder ==
    /\ pc = "prepare"
    /\ cache' = data_dir
    /\ pc' = "branding"
    /\ download_pending
    /\ UNCHANGED <<videos_ids, error, dateafter, playlists, main_channel_id,
                   uploads_playlist_id, api_requests, resolved, videos,
                   total_size>>

\* check_branding_values(): no branding file is supplied.
CheckBrandingValues ==
    /\ pc = "branding"
    /\ pc' = "playlists"
    /\ download_pending
    /\ UNCHANGED <<videos_ids, cache, error, dateafter, playlists,
                   main_channel_id, uploads_playlist_id, api_requests, resolved,
                   videos, total_size>>

ExtractPlaylists(k, split) ==
    /\ pc = "playlists"
    /\ \E order \in Orders(playlist_ids_of(cache, get_id_type(youtube_id),
                                           youtube_id, optimize, k, split).ids) :
           \E out \in {extract_playlists_details_from(cache,
                          get_id_type(youtube_id), youtube_id, optimize, k,
                          split, order)} :
               /\ cache' = out.cache
               /\ api_requests' = api_requests \o out.requests
               /\ resolved' = out.raised
               /\ IF out.raised # "none"
                  THEN /\ Abort(out.raised)
                       /\ UNCHANGED <<playlists, main_channel_id,
                                      uploads_playlist_id>>
                  ELSE /\ pc' = "videos"
                       /\ playlists' = out.playlists
                       /\ main_channel_id' = out.main_channel_id
                       /\ uploads_playlist_id' = out.uploads_playlist_id
                       /\ UNCHANGED error
    /\ download_pending
    /\ UNCHANGED <<videos_ids, dateafter, videos, total_size>>

\* `if self.files:` reads the files; `if not self.files and
\* self.youtube_id:` asks the cache and the platform.
ExtractVideosInfo(k, split, space) ==
    /\ pc = "videos"
    /\ IF files # <<>>
       THEN \E out \in {extract_videos_of_files(
                            FileState(videos, total_size, videos_ids, FALSE,
                                      "none"), files, 1, space)} :
               /\ videos' = out.videos
               /\ total_size' = out.total_size
               /\ videos_ids' = out.videos_ids
               /\ IF out.raised # "none" THEN Abort(out.raised)
                  ELSE pc' = "download" /\ UNCHANGED error
               /\ UNCHANGED <<cache, api_requests>>
       ELSE \E out \in {extract_videos_info(cache, playlists, dateafter, k,
                                            split)} :
               /\ cache' = out.cache
               /\ api_requests' = api_requests \o out.requests
               /\ IF out.raised # "none"
                  THEN Abort(out.raised) /\ UNCHANGED videos_ids
                  ELSE /\ pc' = "download"
                       /\ videos_ids' =
                              IF out.assigned THEN out.result ELSE videos_ids
                       /\ UNCHANGED error
               /\ UNCHANGED <<videos, total_size>>
    /\ download_pending
    /\ UNCHANGED <<dateafter, playlists, main_channel_id, uploads_playlist_id,
                   resolved>>

\* The video ids of the platform
AllVideoIds ==
    UNION {Range(PlatformVideoIds(p)) : p \in PlaylistIds}

\* The same disposition of the engine for every video
RunEngines ==
    {[v \in AllVideoIds |-> s] : s \in {"ok", "video_caught", "video_uncaught"}}

InitRun ==
    /\ youtube_id \in Identifiers
    /\ dateafter \in DateAfters
    /\ optimize \in OptimizeNumbers
    /\ data_dir \in DataDirs
    /\ max_concurrency \in {1, 2}
    /\ engine \in RunEngines
    /\ videos_ids = <<>>
    /\ playlists = <<>>
    /\ main_channel_id = NoneId
    /\ uploads_playlist_id = NoneId
    /\ api_requests = <<>>
    /\ resolved = "pending"
    /\ pc = "start"
    /\ mode = "none"
    /\ batches = <<>>
    /\ workers = <<>>
    /\ hist = {}
    /\ dirs = {}
    /\ overall_succeeded = <<>>
    /\ overall_failed = <<>>
    /\ error = NoError
    /\ log = {}
    /\ authors_arg = <<>>
    /\ cache = EmptyDir
    /\ last_call = NoCall
    /\ NoFiles
    /\ NotCalling

NextRun ==
    \/ ValidateDateafterInput
    \/ PrepareBuildFolder
    \/ CheckBrandingValues
    \/ \E k \in FailPoints, split \in BOOLEAN : ExtractPlaylists(k, split)
    \/ \E k \in FailPoints, split \in BOOLEAN, space \in Spaces :
           ExtractVideosInfo(k, split, space)
    \/ DownloadVideoFilesEnter
    \/ \E w \in 1..Len(workers) : BatchNext(w)
    \/ \E w \in 1..Len(workers), leftover \in BOOLEAN : StepReturn(w, leftover)
    \/ SequentialReturn
    \/ \E order \in Permutations(1..Len(workers)) : PoolCollect(order)
    \/ Threshold
    \/ \E answer \in VideosAnswers : AuthorEnrichment(answer)
    \/ UpdateMetadata

SpecRun == InitRun /\ [][NextRun]_vars

(***************************************************************************)
(* C12: when a request of a wrapper function made during playlist or video *)
(* resolution is answered with a non-2xx status, no further request is     *)
(* issued (no retry), the failure propagates out of run() and the download *)
(* phase is never entered.                                                 *)
(***************************************************************************)
FailedRequests == {i \in 1..Len(api_requests) : api_requests[i].status = "error"}

DownloadNotEntered ==
    /\ mode = "none"
    /\ workers = <<>>
    /\ hist = {}
    /\ overall_succeeded = <<>>
    /\ overall_failed = <<>>

C12_ApiFailureAbortsRun ==
    FailedRequests # {} =>
        /\ FailedRequests = {Len(api_requests)}
        /\ pc = "aborted"
        /\ error.type = "HTTPError"
        /\ DownloadNotEntered

\* A run whose third request, a page of a playlist's videos, failed.
C12_Witness ==
    /\ Len(api_requests) = 3
    /\ api_requests[3] = Request("playlistItems", "PL1", "error")
    /\ api_requests[2].status = "ok"
    /\ resolved = "none"
    /\ pc = "aborted"

(***************************************************************************)
(* C14: with optimize number N >= 3 and the channel's playlist list and    *)
(* the video lists of its playlists cached, resolution for a channel       *)
(* source merges exactly the playlists of fewer than N videos into the     *)
(* playlist 'custom', and every playlist of N videos or more (one of       *)
(* exactly N included) is a standalone playlist of the resolved set that   *)
(* extract_playlists_details_from returns.                                 *)
(***************************************************************************)
ResolutionEnded == resolved # "pending"

ResolvedIds == {playlists[i].playlist_id : i \in 1..Len(playlists)}

\* The playlists of the channel, its uploads playlist included
ChannelPlaylistIds == {"PL1", "PL2", "UU1"}

VideoCount(p) == Len(PlatformVideoIds(p))

ChannelWithThreshold ==
    /\ get_id_type(youtube_id) = "channel"
    /\ youtube_id[1].text = "UC1"
    /\ ~optimize.isNone /\ optimize.n >= 3
    /\ data_dir = FullDir

C14_ThresholdMergeResolved ==
    (ResolutionEnded /\ ChannelWithThreshold) =>
        /\ resolved = "none"
        /\ \A p \in ChannelPlaylistIds :
               (VideoCount(p) >= optimize.n) <=> (p \in ResolvedIds)
        /\ "custom" \in ResolvedIds

\* What does hold: in the cache the playlists of fewer than N videos are
\* merged into playlist_custom_videos and the others keep their files.
C14_ThresholdMergeInCache ==
    (ResolutionEnded /\ ChannelWithThreshold) =>
        /\ \A p \in ChannelPlaylistIds :
               (VideoCount(p) >= optimize.n)
                   <=> (load_json(cache, "playlist_" \o p \o "_videos") # None)
        /\ load_json(cache, "playlist_custom_videos") # None
        /\ {it.videoId : it \in Range(load_json(cache, "playlist_custom_videos").items)}
               = UNION {Range(PlatformVideoIds(p)) :
                           p \in {q \in ChannelPlaylistIds : VideoCount(q) < optimize.n}}

(***************************************************************************)
(* C15: with optimize number 0 and the channel's playlist data cached,     *)
(* resolution for a channel or user source returns exactly one playlist,   *)
(* the playlist 'custom' titled 'All Videos', whose cached video list      *)
(* holds every video of every channel playlist and of the uploads          *)
(* playlist, and the returned uploads playlist id is absent.               *)
(***************************************************************************)
CustomVideoIds ==
    IF load_json(cache, "playlist_custom_videos") = None THEN {}
    ELSE {it.videoId : it \in Range(load_json(cache, "playlist_custom_videos").items)}

FlatChannel ==
    /\ resolved = "none"
    /\ Len(playlists) = 1
    /\ playlists[1].playlist_id = "custom"
    /\ playlists[1].title = "All Videos"
    /\ CustomVideoIds = UNION {Range(PlatformVideoIds(p)) : p \in ChannelPlaylistIds}
    /\ uploads_playlist_id = NoneId

\* Optimize number 0, and a data_dir with what a run on the source caches:
\* the channel under the identifier of the source, the playlist list, and
\* the detail and the videos of every playlist.
OptimizeZeroCached ==
    /\ ~optimize.isNone /\ optimize.n = 0
    /\ \/ get_id_type(youtube_id) = "channel" /\ youtube_id[1].text = "UC1"
          /\ data_dir = FullDir
       \/ get_id_type(youtube_id) = "user" /\ data_dir = UserDir

C15_OptimizeZeroFlat ==
    (ResolutionEnded /\ OptimizeZeroCached) => FlatChannel

\* What does hold: the claim for a channel source
C15_OptimizeZeroFlatChannelSource ==
    (ResolutionEnded /\ OptimizeZeroCached /\ get_id_type(youtube_id) = "channel")
        => FlatChannel

(***************************************************************************)
(* C16: with optimize number absent, resolution for a channel or user      *)
(* source returns the channel's raw playlist list plus the channel's       *)
(* uploads playlist, each playlist id exactly once (also when the uploads  *)
(* id is itself among the channel's playlists), and returns that uploads   *)
(* id as the uploads playlist id.                                          *)
(***************************************************************************)
\* The ids of the channel's playlist list, as get_channel_playlists_json
\* returned it (the cached list, or the list it fetched and cached)
RawListIds ==
    {it.id : it \in Range(load_json(cache, "channel_UC1_playlists").items)}

ChannelOrUserUnoptimized ==
    /\ get_id_type(youtube_id) \in {"channel", "user"}
    /\ optimize.isNone
    /\ resolved = "none"

CommaJoinedPlaylists ==
    /\ Len(youtube_id) >= 2
    /\ \A i \in 1..Len(youtube_id) : MatchesPlaylist(youtube_id[i])

C17_CommaJoinedPlaylists ==
    CommaJoinedPlaylists =>
        /\ get_id_type(youtube_id) = "playlist"
        /\ (ResolutionEnded /\ FailedRequests = {}) =>
               /\ resolved = "none"
               /\ ResolvedIds = Range(SplitIds(youtube_id))
               /\ Len(playlists) = Len(youtube_id)
               /\ main_channel_id = PlaylistDoc(youtube_id[1].text).channelId
               /\ uploads_playlist_id = NoneId

\* What does hold: one playlist id resolves to that playlist.
C17_SinglePlaylist ==
    (Len(youtube_id) = 1 /\ MatchesPlaylist(youtube_id[1])) =>
        /\ get_id_type(youtube_id) = "playlist"
        /\ (ResolutionEnded /\ FailedRequests = {}) =>
               /\ resolved = "none"
               /\ ResolvedIds = {youtube_id[1].text}
               /\ main_channel_id = PlaylistDoc(youtube_id[1].text).channelId
               /\ uploads_playlist_id = NoneId

(***************************************************************************)
(* C18: run() called with an identifier that cannot be classified, with a  *)
(* channel id longer than 24 characters, or with a date-after expression   *)
(* outside the grammar fails with ValueError before the build folder is    *)
(* prepared, before any platform API request and before any download.      *)
(***************************************************************************)
FailedEarlyWithValueError ==
    \/ pc = "start"
    \/ /\ pc = "aborted"
       /\ error.type = "ValueError"
       /\ cache = EmptyDir
       /\ resolved = "pending"
       /\ api_requests = <<>>
       /\ DownloadNotEntered

C18_InvalidInputFailsEarly ==
    (validate_id(youtube_id) = "ValueError" \/ dateafter = "invalid")
        => FailedEarlyWithValueError

\* What does hold: the claim for the date-after expression
C18_InvalidDateFailsEarly ==
    dateafter = "invalid" => FailedEarlyWithValueError

(***************************************************************************)
(* C19: in every run no download worker starts before playlist and video   *)
(* resolution has completed; author enrichment starts only after every     *)
(* worker has finished and the failure threshold has passed, and is        *)
(* invoked with exactly the succeeded ids; hence no cache write of a       *)
(* platform wrapper happens while download workers are running.            *)
(***************************************************************************)
DownloadEntered == mode # "none" \/ workers # <<>> \/ hist # {}

VideosResolved ==
    load_json(cache, "videos") # None \/ load_json(cache, "videos.json") # None

EnrichmentStarted == last_call.fn = "get_videos_authors_info"

SomeWorkerRunning == \E w \in Workers : ~Done(w)

C19_Phases ==
    /\ DownloadEntered =>
           /\ resolved = "none"
           /\ VideosResolved
           /\ pc \notin {"start", "prepare", "branding", "playlists", "videos"}
    /\ EnrichmentStarted =>
           /\ DownloadEntered
           /\ \A w \in Workers : workers[w].step = "finished"
           /\ ~TooManyFailed(overall_succeeded, overall_failed)
           /\ authors_arg = overall_succeeded

C19_PhasesInOrder ==
    [](C19_Phases) /\ [][SomeWorkerRunning => cache' = cache]_vars

\* A run that went through resolution, download and author enrichment
C19_Witness ==
    /\ EnrichmentStarted
    /\ pc = "done"
    /\ api_requests # <<>>
    /\ playlists # <<>>
    /\ DownloadEntered

\* A run with a worker at work on a video after resolution
C19_WorkerRunning ==
    /\ SomeWorkerRunning
    /\ \E w \in Workers : workers[w].step \in Running
    /\ api_requests # <<>>

(***************************************************************************)
(* C20: for a valid configuration (classifiable identifier, valid date     *)
(* expression, no branding files) with a responsive platform API and fewer *)
(* failed than succeeded videos, run() reaches metadata finalization and   *)
(* returns normally; it raises only in the documented failure cases.       *)
(***************************************************************************)
ValidConfiguration ==
    /\ validate_id(youtube_id) = "none"
    /\ dateafter # "invalid"
    /\ optimize.isNone
    /\ data_dir = EmptyDir

\* Every video of the run downloads and converts, with its thumbnail.
EveryVideoDownloads ==
    /\ videos_ids # <<>>
    /\ \A i \in 1..Len(videos_ids) : engine[videos_ids[i]] = "ok"

C20_ValidRunDoesNotRaise ==
    (ValidConfiguration /\ FailedRequests = {} /\ EveryVideoDownloads)
        => pc # "aborted"

\* What does hold: a valid run on a responsive platform that resolves no
\* video is not aborted before author enrichment.
C20_RunWithoutVideosDoesNotRaise ==
    (ValidConfiguration /\ FailedRequests = {} /\ resolved = "none"
        /\ pc = "aborted")
        => (videos_ids # <<>> \/ EnrichmentStarted)

(***************************************************************************)
(* run() in file mode.  extract_playlists still resolves self.youtube_id   *)
(* before extract_videos_info reads the files.                             *)
(***************************************************************************)
MaxFiles == 2

Zero == Size(0, "")

\* The files a caller supplies: with and without header, with the sizes
\* "0", "10K", "2M", "1G", "20M", "7T", "12" and "", with a line of fewer
\* than six fields, and with no line at all.
CsvFiles ==
    {<<Header, Row("a", TRUE, Zero), Row("b", FALSE, Zero)>>,
     <<Row("c", TRUE, Size(10, "K"))>>,
     <<Header, Row("a", TRUE, Size(2, "M"))>>,
     <<Header, Row("b", TRUE, Size(1, "G"))>>,
     <<Header, Row("a", FALSE, Size(20, "M")), Row("b", TRUE, Zero)>>,
     <<Header, Row("a", TRUE, Size(7, "T"))>>,
     <<Header, Row("a", TRUE, Size(12, ""))>>,
     <<Header, Row("a", TRUE, Size(-1, ""))>>,
     <<Header, ShortLine>>,
     <<Header>>,
     <<>>}

InitFiles ==
    /\ files \in SeqsUpTo(CsvFiles, MaxFiles) \ {<<>>}
    /\ videos = <<>>
    /\ total_size = 0
    /\ NotCalling
    /\ youtube_id = <<PL1Part>>
    /\ dateafter = "all"
    /\ optimize = OptNone
    /\ data_dir \in {EmptyDir, FullDir}
    /\ max_concurrency \in {1, 2}
    /\ engine \in RunEngines
    /\ videos_ids = <<>>
    /\ playlists = <<>>
    /\ main_channel_id = NoneId
    /\ uploads_playlist_id = NoneId
    /\ api_requests = <<>>
    /\ resolved = "pending"
    /\ pc = "start"
    /\ mode = "none"
    /\ batches = <<>>
    /\ workers = <<>>
    /\ hist = {}
    /\ dirs = {}
    /\ overall_succeeded = <<>>
    /\ overall_failed = <<>>
    /\ error = NoError
    /\ log = {}
    /\ authors_arg = <<>>
    /\ cache = EmptyDir
    /\ last_call = NoCall

SpecFiles == InitFiles /\ [][NextRun]_vars

\* extract_videos_info has just returned in file mode
FilesRead == files # <<>> /\ pc = "download"

\* The data rows of file number f
RowsOf(f) == DataLines(files[f])

LastFile == Len(files)

(***************************************************************************)
(* C26: in file mode a size field made of a decimal number n and K, M or G *)
(* is converted to n*1024, n*1024^2 or n*1024^3 bytes, "0" to 0, and any   *)
(* other trailing letter halts the process.  The code drops the last two   *)
(* characters of the field, the letter and the last digit, before          *)
(* float(): "10K" gives 1024 and "2M" raises ValueError.                   *)
(***************************************************************************)
Unit(suffix) ==
    IF suffix = "K" THEN KB ELSE IF suffix = "M" THEN KB * KB
    ELSE IF suffix = "G" THEN KB * KB * KB ELSE 1

\* The number of bytes the field stands for
BytesOf(size) == size.n * Unit(size.suffix)

C26_SizeConversion ==
    FilesRead =>
        \A i \in 1..Len(videos) :
            videos[i].video_size = BytesOf(RowsOf(LastFile)[i].size)

\* What the code computes: the number without its last digit, times the
\* unit; a one-digit number before K, M or G ends the run with ValueError.
C26_LastDigitDropped ==
    /\ FilesRead =>
           \A i \in 1..Len(videos) :
               videos[i].video_size
                   = (RowsOf(LastFile)[i].size.n \div 10)
                         * Unit(RowsOf(LastFile)[i].size.suffix)
    /\ (/\ pc = "aborted"
        /\ resolved = "none"
        /\ Len(files) = 1
        /\ Len(files[1]) > 0
        /\ Len(RowsOf(1)) > 0
        /\ RowsOf(1)[1].kind = "row"
        /\ RowsOf(1)[1].size.suffix \in {"K", "M", "G"}
        /\ RowsOf(1)[1].size.n < 10)
       => error.type = "ValueError"

(***************************************************************************)
(* C30: in file mode with k >= 1 files, after extract_videos_info the      *)
(* resolved video-id list holds the ids of the data rows of all k files,   *)
(* in file order then row order, and the total size is the sum of the      *)
(* sizes of all those rows.  The code assigns self.videos, self.total_size *)
(* and self.videos_ids anew for every file: only the last file counts.     *)
(***************************************************************************)
RECURSIVE IdsOfFiles(_)
IdsOfFiles(f) ==
    IF f > Len(files) THEN <<>>
    ELSE [i \in 1..Len(RowsOf(f)) |-> RowsOf(f)[i].video_id] \o IdsOfFiles(f + 1)

RECURSIVE SizeOfRows(_, _)
\* The sizes of the rows as the code converts them, added up
SizeOfRows(rows, i) ==
    IF i > Len(rows) THEN 0
    ELSE ConvertSize(rows[i].size).value + SizeOfRows(rows, i + 1)

RECURSIVE SizeOfFiles(_)
SizeOfFiles(f) ==
    IF f > Len(files) THEN 0
    ELSE SizeOfRows(RowsOf(f), 1) + SizeOfFiles(f + 1)

C30_AllFilesResolved ==
    FilesRead =>
        /\ videos_ids = IdsOfFiles(1)
        /\ total_size = SizeOfFiles(1)

\* What the code leaves: the rows of the last file
C30_LastFileResolved ==
    FilesRead =>
        /\ videos_ids = IdsOfFiles(LastFile)
        /\ total_size = SizeOfRows(RowsOf(LastFile), 1)

(***************************************************************************)
(* utils.py called directly: save_json and load_json, in any order, on one *)
(* cache directory.                                                        *)
(***************************************************************************)
LibraryKeys == {"k1", "k2"}

NeverSaved == [kind |-> "never"]

\* Values made of None, strings, numbers, lists and dicts keyed by strings
JsonValues ==
    {None,
     [kind |-> "str", text |-> "x"],
     [kind |-> "int", n |-> 1],
     ListDoc(<<>>),
     ListDoc(<<"a", "b">>),
     [kind |-> "pydict", keytype |-> "str", keys |-> {"1"}]}

\* A tuple, a dict keyed by integers, a set
OtherValues ==
    {[kind |-> "tuple", items |-> <<"a", "b">>],
     [kind |-> "pydict", keytype |-> "int", keys |-> {"1"}],
     [kind |-> "set", members |-> {"a"}]}

LibraryCall(fn, input, output, raised) ==
    [fn |-> fn, input |-> input, output |-> output, raised |-> raised,
     returned |-> TRUE]

\* Everything but the cache directory and the record of the library calls
run_idle ==
    UNCHANGED <<videos_ids, max_concurrency, engine, resolution, file_mode,
                pc, mode, batches, workers, hist, dirs, overall_succeeded,
                overall_failed, error, log, authors_arg, last_call, process>>

SaveJson(key, data) ==
    /\ pc = "json"
    /\ cache' = save_json(cache, key, data)
    /\ last_saved' = [last_saved EXCEPT ![key] = data]
    /\ library_call' =
           LibraryCall("save_json", key, None,
                       IF Serializable(data) THEN "none" ELSE "TypeError")
    /\ run_idle

LoadJson(key) ==
    /\ pc = "json"
    /\ library_call' = LibraryCall("load_json", key, load_json(cache, key), "none")
    /\ UNCHANGED <<cache, last_saved>>
    /\ run_idle

InitJson ==
    /\ pc = "json"
    /\ cache \in [{FileOf(k) : k \in LibraryKeys} -> {Absent, Corrupt}]
    /\ last_saved = [k \in LibraryKeys |-> NeverSaved]
    /\ library_call = [fn |-> "none"]
    /\ process = NoProcess
    /\ videos_ids = <<>>
    /\ max_concurrency = 1
    /\ engine = [v \in VideoIds |-> "ok"]
    /\ mode = "none"
    /\ batches = <<>>
    /\ workers = <<>>
    /\ hist = {}
    /\ dirs = {}
    /\ overall_succeeded = <<>>
    /\ overall_failed = <<>>
    /\ error = NoError
    /\ log = {}
    /\ authors_arg = <<>>
    /\ last_call = NoCall
    /\ NoFiles
    /\ youtube_id = <<>>
    /\ dateafter = "all"
    /\ optimize = OptNone
    /\ data_dir = <<>>
    /\ playlists = <<>>
    /\ main_channel_id = NoneId
    /\ uploads_playlist_id = NoneId
    /\ api_requests = <<>>
    /\ resolved = "pending"

NextJson ==
    \/ \E key \in LibraryKeys, data \in JsonValues \cup OtherValues :
           SaveJson(key, data)
    \/ \E key \in LibraryKeys : LoadJson(key)

SpecJson == InitJson /\ [][NextJson]_vars

(***************************************************************************)
(* C23: after any sequence of save_json and load_json calls on one cache   *)
(* directory, load_json(dir, k) returns a value equal to the V of the most *)
(* recent save_json(dir, k, V), for any JSON-representable V (None,        *)
(* strings, numbers, lists, dicts keyed by strings), and returns None      *)
(* without raising for every key that was never saved.                     *)
(***************************************************************************)
Loaded == library_call.fn = "load_json"

C23_WitnessNeverSaved ==
    /\ Loaded
    /\ last_saved[library_call.input] = NeverSaved
    /\ library_call.output = None

(***************************************************************************)
(* The library functions called once each, on arguments drawn from bounded *)
(* sets: library_call holds the arguments, then the outcome of the call.   *)
(***************************************************************************)
MaxTail == 23

\* A call that is about to be made
Calling(fn, input) ==
    [LibraryCall(fn, input, None, "none") EXCEPT !.returned = FALSE]

Called(fn) == library_call.fn = fn /\ ~library_call.returned

Returning(fn) == library_call.fn = fn /\ library_call.returned

\* The call returns `output` or raises `raised`
Return(output, raised) ==
    library_call' = [library_call EXCEPT !.output = output,
                                         !.raised = raised,
                                         !.returned = TRUE]

library_idle ==
    UNCHANGED <<videos_ids, max_concurrency, engine, resolution, file_mode,
                mode, batches, workers, hist, dirs, overall_succeeded,
                overall_failed, error, log, authors_arg, last_call, cache,
                last_saved, process>>

\* The strings get_id_type is called on: one part of every shape, with and
\* without a final line feed, and two playlist ids joined by a comma.
IdStrings ==
    {<<[text |-> "id", prefix |-> p, tail |-> t, chars |-> c, newline |-> n]>> :
        p \in {"PL", "UC", ""}, t \in 0..MaxTail,
        c \in {"alnum", "word", "other"}, n \in BOOLEAN}
    \cup {<<PL1Part, PL2Part>>}

\* The arguments of get_id_type: None, a string, a list of strings
IdArguments ==
    {[type |-> "NoneType", id |-> <<>>]}
    \cup {[type |-> "str", id |-> s] : s \in IdStrings}
    \cup {[type |-> "list", id |-> l] : l \in {<<>>, <<PL1Part>>, <<PL1Part, PL2Part>>,
                                               <<PL1Part, Part("user1", "", 5, "alnum")>>}}

\* get_id_type(id), lines 18-34: None, a string, a list of strings
GetIdType ==
    /\ pc = "library"
    /\ Called("get_id_type")
    /\ \E arg \in {library_call.input} :
           Return([kind |-> "type",
                   name |-> IF arg.type = "NoneType" THEN NoneId
                            ELSE IF arg.type = "str" THEN get_id_type(arg.id)
                            ELSE IF \A i \in 1..Len(arg.id) :
                                        MatchesPlaylist(arg.id[i])
                                 THEN "playlist"
                            ELSE NoneId],
                  "none")
    /\ UNCHANGED pc
    /\ library_idle

(***************************************************************************)
(* replace_titles(items, custom_titles).  A custom titles file exists or   *)
(* not; its lines start with "https://" (a video URL, whose id             *)
(* extract.video_id finds or not) or are titles.                           *)
(***************************************************************************)
MaxItems == 3

UrlLine(video_id) == [kind |-> "url", video_id |-> video_id, title |-> ""]
TitleLine(title) == [kind |-> "text", video_id |-> "", title |-> title]

TitlesFile(lines) == [exists |-> TRUE, lines |-> lines]
MissingFile == [exists |-> FALSE, lines |-> <<>>]

Item(video_id) == [videoId |-> video_id, title |-> "old"]

RECURSIVE AllLines(_, _)
\* The lines of the files, in the order the two loops read them
AllLines(fs, f) ==
    IF f > Len(fs) THEN <<>> ELSE fs[f].lines \o AllLines(fs, f + 1)

RECURSIVE Select(_, _, _)
\* The lines of one kind, in order
Select(lines, i, kind) ==
    IF i > Len(lines) THEN <<>>
    ELSE (IF lines[i].kind = kind THEN <<lines[i]>> ELSE <<>>)
         \o Select(lines, i + 1, kind)

\* ids.append(extract.video_id(line)) for every line that starts with https://
ExtractedIds(fs) ==
    Bind(Select(AllLines(fs, 1), 1, "url"),
         LAMBDA ls : [i \in 1..Len(ls) |-> ls[i].video_id])

\* titles.append(line.rstrip()) for every other line
ExtractedTitles(fs) ==
    Bind(Select(AllLines(fs, 1), 1, "text"),
         LAMBDA ls : [i \in 1..Len(ls) |-> ls[i].title])

RECURSIVE AdvanceTo(_, _, _)
\* while v_index < len(ids) and videoId != ids[v_index]: v_index += 1
AdvanceTo(ids, video_id, v_index) ==
    IF v_index < Len(ids) /\ ids[v_index + 1] # video_id
    THEN AdvanceTo(ids, video_id, v_index + 1)
    ELSE v_index

RECURSIVE ReplaceLoop(_, _, _, _, _)
\* for item in items, lines 499-509; v_index counts from 0
ReplaceLoop(items, ids, titles, i, v_index) ==
    IF i > Len(items) \/ v_index >= Len(ids) THEN items
    ELSE Bind(AdvanceTo(ids, items[i].videoId, v_index),
              LAMBDA j :
         IF j < Len(ids)
         THEN ReplaceLoop([items EXCEPT ![i].title = titles[j + 1]], ids,
                          titles, i + 1, j + 1)
         ELSE ReplaceLoop(items, ids, titles, i + 1, j))

\* The items as the call leaves them, and the exception that leaves it
Replaced(items, raised) == [items |-> items, raised |-> raised]

\* Lines 473-509 once the number of files has been accepted
ReadAndReplace(items, custom_titles) ==
    IF \E f \in 1..Len(custom_titles) : ~custom_titles[f].exists
    THEN Replaced(items, "FileNotFoundError")
    ELSE Bind(ExtractedIds(custom_titles),
              LAMBDA ids :
         IF \E k \in 1..Len(ids) : ids[k] = NoneId
         THEN Replaced(items, "RegexMatchError")
         ELSE Bind(ExtractedTitles(custom_titles),
                   LAMBDA titles :
              IF Len(titles) # Len(ids) THEN Replaced(items, "ValueError")
              ELSE Replaced(ReplaceLoop(items, ids, titles, 1, 0), "none")))

\* Mutant: one file alone is accepted.
replace_titles_accepts_one_file(items, custom_titles) ==
    IF Len(custom_titles) = 0 \/ Len(custom_titles) > 2
    THEN Replaced(items, "ValueError")
    ELSE ReadAndReplace(items, custom_titles)

replace_titles(items, custom_titles) ==
    IF Len(custom_titles) = 0 THEN Replaced(items, "ValueError")
    ELSE IF Len(custom_titles) = 1 THEN Replaced(items, "ValueError")
    ELSE IF Len(custom_titles) > 2 THEN Replaced(items, "ValueError")
    ELSE ReadAndReplace(items, custom_titles)

ItemLists == {[i \in 1..Len(s) |-> Item(s[i])] : s \in SeqsUpTo({"a", "b", "x"}, MaxItems)}

CustomTitlesFiles ==
    {TitlesFile(<<UrlLine("a")>>),
     TitlesFile(<<UrlLine("a"), UrlLine("b")>>),
     TitlesFile(<<UrlLine("b"), UrlLine("a")>>),
     TitlesFile(<<UrlLine(NoneId)>>),
     TitlesFile(<<TitleLine("T1")>>),
     TitlesFile(<<TitleLine("T1"), TitleLine("T2")>>),
     TitlesFile(<<UrlLine("x"), TitleLine("T1")>>),
     TitlesFile(<<>>),
     MissingFile}

CustomTitles ==
    SeqsUpTo(CustomTitlesFiles, 2) \cup {<<f, f, f>> : f \in CustomTitlesFiles}

ReplaceTitles ==
    /\ pc = "library"
    /\ Called("replace_titles")
    /\ \E out \in {replace_titles(library_call.input.items,
                                  library_call.input.custom_titles)} :
           Return([kind |-> "items", items |-> out.items], out.raised)
    /\ UNCHANGED pc
    /\ library_idle

(***************************************************************************)
(* get_video_json(videos_ids).  The platform answers the request of a      *)
(* chunk with a status; a video has its view count, the number of calendar *)
(* years since it was published, and a size that yt_dlp finds or not.      *)
(***************************************************************************)
MaxYears == 2

ViewCounts == [a |-> 10, b |-> 7]

ApproxSize == [a |-> 2048, b |-> 4096]

\* try: int(views / years + 1)  except ZeroDivisionError: 0
view_per_year(views, years) ==
    IF years = 0 THEN 0 ELSE (views \div years) + 1

VideoStatistics(id, years, sized) ==
    [id |-> id, viewCount |-> ViewCounts[id],
     viewPerYear |-> view_per_year(ViewCounts[id], years[id]),
     videoSize |-> IF id \in sized THEN ApproxSize[id] ELSE 0]

\* One request for every 50 ids, then the two statistics of every video
get_video_json(ids, status, years, sized) ==
    IF Len(ids) = 0 THEN Returned(<<>>, <<>>, <<>>)
    ELSE IF status # "ok"
    THEN Raised(<<>>, <<Request("videos", ids, status)>>, "HTTPError")
    ELSE Returned(<<>>, <<Request("videos", ids, status)>>,
                  [i \in 1..Len(ids) |-> VideoStatistics(ids[i], years, sized)])

GetVideoJson ==
    /\ pc = "library"
    /\ Called("get_video_json")
    /\ \E in \in {library_call.input} :
           \E out \in {get_video_json(in.videos_ids, in.status, in.years,
                                      in.sized)} :
               Return([kind |-> "videos", items |-> out.result,
                       requests |-> out.requests], out.raised)
    /\ UNCHANGED pc
    /\ library_idle

(***************************************************************************)
(* subset_videos_json(videos, subset_by, subset_videos, subset_gb).        *)
(* statistics.viewCount is the string of the platform, a list of digits    *)
(* here; snippet.publishedAt is a timestamp, an ordinal here.              *)
(***************************************************************************)
MaxCandidates == 3

GB == KB * KB * KB

Video(id, viewCount, publishedAt, viewPerYear, videoSize) ==
    [id |-> id, viewCount |-> viewCount, publishedAt |-> publishedAt,
     viewPerYear |-> viewPerYear, videoSize |-> videoSize]

RECURSIVE StrGreater(_, _, _)
\* s > t for two strings, from character i on
StrGreater(s, t, i) ==
    IF i > Len(s) THEN FALSE
    ELSE IF i > Len(t) THEN TRUE
    ELSE IF s[i] # t[i] THEN s[i] > t[i]
    ELSE StrGreater(s, t, i + 1)

\* key(v) > key(w) for the key of the criterion
Greater(v, w, subset_by) ==
    IF subset_by = "views" THEN StrGreater(v.viewCount, w.viewCount, 1)
    ELSE IF subset_by = "recent" THEN v.publishedAt > w.publishedAt
    ELSE v.viewPerYear > w.viewPerYear

RECURSIVE InsertAt(_, _, _, _)
\* v put before the first video it is greater than, from position j on
InsertAt(sorted, v, j, subset_by) ==
    IF j > Len(sorted) THEN Append(sorted, v)
    ELSE IF Greater(v, sorted[j], subset_by)
    THEN SubSeq(sorted, 1, j - 1) \o <<v>> \o SubSeq(sorted, j, Len(sorted))
    ELSE InsertAt(sorted, v, j + 1, subset_by)

RECURSIVE SortedDescending(_, _, _, _)
\* sorted(videos, key=..., reverse=True): videos of equal key keep their order
SortedDescending(vs, i, acc, subset_by) ==
    IF i > Len(vs) THEN acc
    ELSE SortedDescending(vs, i + 1, InsertAt(acc, vs[i], 1, subset_by),
                          subset_by)

\* Lines 427-432: no sort for another criterion
SortedBy(vs, subset_by) ==
    IF subset_by \in {"views", "recent", "views-per-year"}
    THEN SortedDescending(vs, 1, <<>>, subset_by)
    ELSE vs

IdsOf(vs) == [i \in 1..Len(vs) |-> vs[i].id]

\* videos_ids[:subset_videos]
Take(s, n) == SubSeq(s, 1, IF n < Len(s) THEN n ELSE Len(s))

RECURSIVE WithIdIn(_, _, _)
\* [video for video in videos if video["id"] in ids]
WithIdIn(vs, i, ids) ==
    IF i > Len(vs) THEN <<>>
    ELSE (IF vs[i].id \in Range(ids) THEN <<vs[i]>> ELSE <<>>)
         \o WithIdIn(vs, i + 1, ids)

Subset(vs, raised) == [videos |-> vs, raised |-> raised]

RECURSIVE BudgetLoop(_, _, _, _, _, _, _)
\* for video in videos, lines 442-456.  `bound` tells whether videos_ids
\* (`all_ids`) was assigned, which line 434 does when subset_videos is not 0.
BudgetLoop(vs, i, total, ids_subset, all_ids, bound, budget) ==
    IF i > Len(vs) THEN Subset(vs, "none")
    ELSE IF total + vs[i].videoSize <= budget
    THEN IF ~bound THEN Subset(vs, "UnboundLocalError")
         ELSE IF vs[i].id = all_ids[Len(all_ids)]
         THEN Subset(WithIdIn(vs, 1, Append(ids_subset, vs[i].id)), "none")
         ELSE BudgetLoop(vs, i + 1, total + vs[i].videoSize,
                         Append(ids_subset, vs[i].id), all_ids, bound, budget)
    ELSE Subset(WithIdIn(vs, 1, ids_subset), "none")

subset_videos_json(videos_in, subset_by, subset_videos, subset_gb) ==
    Bind(SortedBy(videos_in, subset_by),
         LAMBDA by_criterion :
    Bind(IF subset_videos # 0
         THEN WithIdIn(by_criterion, 1, Take(IdsOf(by_criterion), subset_videos))
         ELSE by_criterion,
         LAMBDA limited :
    IF subset_gb # 0
    THEN BudgetLoop(SortedDescending(limited, 1, <<>>, "views-per-year"), 1,
                    0, <<>>, IdsOf(by_criterion), subset_videos # 0,
                    subset_gb * GB)
    ELSE Subset(limited, "none")))

SubsetCriteria == {"views", "recent", "views-per-year", "none"}

\* Four videos: B has the most views per year, C and D tie, A has the
\* fewest; as strings the view counts order B ("9") first.
CandidatePool ==
    {Video("A", <<1, 0>>, 1, 3, 3 * (GB \div 4)),
     Video("B", <<9>>, 3, 9, GB \div 2),
     Video("C", <<2, 5>>, 2, 5, GB \div 2),
     Video("D", <<2, 5>>, 4, 5, GB \div 4)}

Distinct(s) == \A i, j \in 1..Len(s) : i # j => s[i] # s[j]

CandidateLists == {s \in SeqsUpTo(CandidatePool, MaxCandidates) : Distinct(s)}

SubsetVideosJson ==
    /\ pc = "library"
    /\ Called("subset_videos_json")
    /\ \E in \in {library_call.input} :
           \E out \in {subset_videos_json(in.videos, in.subset_by,
                                          in.subset_videos, in.subset_gb)} :
               Return([kind |-> "videos", items |-> out.videos], out.raised)
    /\ UNCHANGED pc
    /\ library_idle

(***************************************************************************)
(* MediaDownloader.download_media.  The call of YoutubeDownload(...) binds *)
(* its keyword arguments to the parameters of __init__.                    *)
(***************************************************************************)
\* The keywords download_media passes, lines 19-49 of __init__.py
DownloadMediaKeywords ==
    {"youtube_id", "video_format", "low_quality", "resolution",
     "all_subtitles", "files", "optimize", "output_dir", "fname", "debug",
     "tmp_dir", "keep_build_dir", "max_concurrency", "youtube_store",
     "language", "locale_name", "dateafter", "use_any_optimized_version",
     "s3_url_with_credentials", "custom_titles", "title", "description",
     "creator", "publisher", "name", "profile_image", "banner_image",
     "main_color", "secondary_color"}

\* The parameters of YoutubeDownload.__init__, lines 41-58
InitParameters ==
    {"youtube_id", "video_format", "low_quality", "resolution",
     "all_subtitles", "files", "optimize", "output_dir", "debug", "tmp_dir",
     "keep_build_dir", "max_concurrency", "youtube_store", "dateafter",
     "custom_titles"}

\* A keyword no parameter takes, or a parameter no keyword fills: TypeError
BindsTo(keywords, parameters) == keywords = parameters

Orchestrator(constructed, run_calls) ==
    [kind |-> "orchestrator", constructed |-> constructed,
     run_calls |-> run_calls]

\* downloader = YoutubeDownload(...); downloader.run()
DownloadMedia ==
    /\ pc = "library"
    /\ Called("download_media")
    /\ IF BindsTo(DownloadMediaKeywords, InitParameters)
       THEN /\ Return(Orchestrator(TRUE, 1), "none")
            /\ pc' = "start"
       ELSE /\ Return(Orchestrator(FALSE, 0), "TypeError")
            /\ UNCHANGED pc
    /\ library_idle

InitLibrary ==
    /\ pc = "library"
    /\ \/ \E arg \in IdArguments : library_call = Calling("get_id_type", arg)
       \/ \E items \in ItemLists, custom_titles \in CustomTitles :
              library_call = Calling("replace_titles",
                                     [items |-> items,
                                      custom_titles |-> custom_titles])
       \/ \E ids \in SeqsUpTo({"a", "b"}, 2), status \in {"ok", "error"},
             years \in [{"a", "b"} -> 0..MaxYears], sized \in SUBSET {"a", "b"} :
              library_call = Calling("get_video_json",
                                     [videos_ids |-> ids, status |-> status,
                                      years |-> years, sized |-> sized])
       \/ \E vs \in CandidateLists, by \in SubsetCriteria,
             n \in 0..MaxCandidates, gb \in {0, 1} :
              library_call = Calling("subset_videos_json",
                                     [videos |-> vs, subset_by |-> by,
                                      subset_videos |-> n, subset_gb |-> gb])
       \/ \E id \in Identifiers, fs \in {<<>>} \cup {<<f>> : f \in CsvFiles} :
              library_call = Calling("download_media",
                                     [youtube_id |-> id, files |-> fs])
    /\ last_saved = <<>>
    /\ process = NoProcess
    /\ cache = <<>>
    /\ last_call = NoCall
    /\ videos_ids = <<>>
    /\ max_concurrency = 1
    /\ engine = [v \in VideoIds |-> "ok"]
    /\ mode = "none"
    /\ batches = <<>>
    /\ workers = <<>>
    /\ hist = {}
    /\ dirs = {}
    /\ overall_succeeded = <<>>
    /\ overall_failed = <<>>
    /\ error = NoError
    /\ log = {}
    /\ authors_arg = <<>>
    /\ NoFiles
    /\ youtube_id = <<>>
    /\ dateafter = "all"
    /\ optimize = OptNone
    /\ data_dir = <<>>
    /\ playlists = <<>>
    /\ main_channel_id = NoneId
    /\ uploads_playlist_id = NoneId
    /\ api_requests = <<>>
    /\ resolved = "pending"

NextLibrary ==
    \/ GetIdType
    \/ ReplaceTitles
    \/ GetVideoJson
    \/ SubsetVideosJson
    \/ DownloadMedia

SpecLibrary == InitLibrary /\ [][NextLibrary]_vars

(***************************************************************************)
(* C21: download_media called with the full documented parameter set       *)
(* constructs one orchestrator from those parameters and invokes its run() *)
(* exactly once; it raises only when the pipeline fails.  download_media   *)
(* passes fourteen keywords __init__ has no parameter for (fname,          *)
(* language, locale_name, ...): the call raises TypeError before any       *)
(* orchestrator exists.                                                    *)
(***************************************************************************)
C21_ConstructsAndRunsOnce ==
    Returning("download_media") =>
        /\ library_call.output.constructed
        /\ library_call.output.run_calls = 1

\* What the code does: no orchestrator, no run(), TypeError
C21_NeverConstructs ==
    Returning("download_media") =>
        /\ library_call.raised = "TypeError"
        /\ ~library_call.output.constructed
        /\ library_call.output.run_calls = 0

(***************************************************************************)
(* C22: get_id_type never raises on a string or on None; it returns        *)
(* "playlist" for PL followed by at least 16 characters of [-_a-zA-Z0-9],  *)
(* "channel" for UC followed by at least 22 such characters, "user" for    *)
(* every other non-empty purely alphanumeric string, and None for None,    *)
(* the empty string and every string that holds another character; no      *)
(* string matches both the playlist and the channel pattern.  A string     *)
(* that ends with a line feed is classified as the string before the line  *)
(* feed is: "user1\n" is a user.                                           *)
(***************************************************************************)
OnePart(s) == Len(s) = 1

WordOnly(part) == part.chars \in {"alnum", "word"} /\ ~part.newline

IsPlaylistString(s) ==
    OnePart(s) /\ s[1].prefix = "PL" /\ s[1].tail >= 16 /\ WordOnly(s[1])

IsChannelString(s) ==
    OnePart(s) /\ s[1].prefix = "UC" /\ s[1].tail >= 22 /\ WordOnly(s[1])

IsAlphanumericString(s) ==
    OnePart(s) /\ s[1].chars = "alnum" /\ ~s[1].newline /\ BodyLen(s[1]) >= 1

\* The type the documentation gives a string
DocumentedType(s) ==
    IF IsPlaylistString(s) THEN "playlist"
    ELSE IF IsChannelString(s) THEN "channel"
    ELSE IF IsAlphanumericString(s) THEN "user"
    ELSE NoneId

WithoutFinalLineFeed(s) == [i \in 1..Len(s) |-> [s[i] EXCEPT !.newline = FALSE]]

C22_GetIdTypeClassifies ==
    Returning("get_id_type") =>
        /\ library_call.raised = "none"
        /\ library_call.input.type = "NoneType"
               => library_call.output.name = NoneId
        /\ library_call.input.type = "str"
               => /\ library_call.output.name
                         = DocumentedType(library_call.input.id)
                  /\ ~(IsPlaylistString(library_call.input.id)
                       /\ IsChannelString(library_call.input.id))

\* What the code does: the documented type of the string without the line
\* feed that ends it, when it is the only part
C22_ClassifiesUpToFinalLineFeed ==
    (Returning("get_id_type") /\ library_call.input.type = "str") =>
        /\ library_call.raised = "none"
        /\ library_call.output.name
               = IF OnePart(library_call.input.id)
                 THEN DocumentedType(WithoutFinalLineFeed(library_call.input.id))
                 ELSE NoneId

(***************************************************************************)
(* C24: replace_titles raises ValueError when given 0, 1 or more than 2    *)
(* files, and when the number of extracted video ids differs from the      *)
(* number of extracted titles; in each of these cases no item's title has  *)
(* been modified.                                                          *)
(***************************************************************************)
TitlesInput == library_call.input.custom_titles

\* Both files were read to the end: ids and titles were extracted
Extracted ==
    /\ Len(TitlesInput) = 2
    /\ \A f \in 1..2 : TitlesInput[f].exists
    /\ \A k \in 1..Len(ExtractedIds(TitlesInput)) :
           ExtractedIds(TitlesInput)[k] # NoneId

CountsDiffer ==
    Extracted /\ Len(ExtractedIds(TitlesInput)) # Len(ExtractedTitles(TitlesInput))

C24_InvalidInputLeavesTitles ==
    (/\ Returning("replace_titles")
     /\ \/ Len(TitlesInput) \in {0, 1}
        \/ Len(TitlesInput) > 2
        \/ CountsDiffer)
    => /\ library_call.raised = "ValueError"
       /\ library_call.output.items = library_call.input.items

\* Two files whose id and title counts differ, and an item one of the ids
\* names
C24_Witness ==
    /\ Returning("replace_titles")
    /\ CountsDiffer
    /\ \E i \in 1..Len(library_call.input.items) :
           library_call.input.items[i].videoId
               \in Range(ExtractedIds(TitlesInput))
    /\ library_call.raised = "ValueError"

\* One file alone, holding as many ids as titles
C24_WitnessOneFile ==
    /\ Returning("replace_titles")
    /\ Len(TitlesInput) = 1
    /\ TitlesInput[1].exists
    /\ Len(ExtractedIds(TitlesInput)) = 1
    /\ Len(ExtractedTitles(TitlesInput)) = 1
    /\ library_call.raised = "ValueError"

(***************************************************************************)
(* C25: given id and title lists of equal length whose ids occur in the    *)
(* item list in the same relative order (the item list may hold videos     *)
(* that are not listed, anywhere between them), replace_titles sets the    *)
(* title of every item whose video id is the k-th listed id to the k-th    *)
(* title and leaves every other item untouched.  The loop moves past every *)
(* remaining id when it meets an item that is not listed: the items after  *)
(* it keep their titles.                                                   *)
(***************************************************************************)
RECURSIVE IsSubsequence(_, _, _, _)
\* s from i on occurs in t from j on, in the same relative order
IsSubsequence(s, i, t, j) ==
    IF i > Len(s) THEN TRUE
    ELSE IF j > Len(t) THEN FALSE
    ELSE IF s[i] = t[j] THEN IsSubsequence(s, i + 1, t, j + 1)
    ELSE IsSubsequence(s, i, t, j + 1)

ItemIds == [i \in 1..Len(library_call.input.items) |->
               library_call.input.items[i].videoId]

\* The title the lists give a video id, its own title when it is not listed
TitleFor(item, ids, titles) ==
    IF \E k \in 1..Len(ids) : ids[k] = item.videoId
    THEN titles[CHOOSE k \in 1..Len(ids) : ids[k] = item.videoId]
    ELSE item.title

Matched ==
    /\ Returning("replace_titles")
    /\ Extracted
    /\ ~CountsDiffer
    /\ Distinct(ExtractedIds(TitlesInput))
    /\ Distinct(ItemIds)

EveryListedItemRenamed ==
    \A i \in 1..Len(library_call.input.items) :
        library_call.output.items[i]
            = [library_call.input.items[i] EXCEPT !.title =
                  TitleFor(library_call.input.items[i],
                           ExtractedIds(TitlesInput),
                           ExtractedTitles(TitlesInput))]

C25_ListedItemsRenamed ==
    (Matched /\ IsSubsequence(ExtractedIds(TitlesInput), 1, ItemIds, 1))
    => (library_call.raised = "none" /\ EveryListedItemRenamed)

\* What the code does: when every item is listed, in the order of the
\* list, the items are renamed; the list may name videos that are no item.
C25_RenamedWhenEveryItemListed ==
    (Matched /\ IsSubsequence(ItemIds, 1, ExtractedIds(TitlesInput), 1))
    => (library_call.raised = "none" /\ EveryListedItemRenamed)

(***************************************************************************)
(* C27: for every sort criterion and every video-count limit (0: no        *)
(* limit), subset_videos_json with a non-zero gigabyte budget returns the  *)
(* longest prefix of the candidate videos, in descending views-per-year    *)
(* order, whose cumulative size does not exceed budget * 1024^3 bytes.     *)
(* With limit 0 the loop reads videos_ids, which was never assigned; with  *)
(* another criterion than views-per-year it stops at the video the         *)
(* criterion puts last.                                                    *)
(***************************************************************************)
SubsetInput == library_call.input

\* The candidates: the first `subset_videos` videos in the order of the
\* criterion, all of them when the limit is 0
Candidates ==
    IF SubsetInput.subset_videos = 0
    THEN SortedBy(SubsetInput.videos, SubsetInput.subset_by)
    ELSE Take(SortedBy(SubsetInput.videos, SubsetInput.subset_by),
              SubsetInput.subset_videos)

RECURSIVE FittingPrefix(_, _, _, _)
\* The longest prefix of vs whose sizes add up to budget at most
FittingPrefix(vs, i, total, budget) ==
    IF i > Len(vs) \/ total + vs[i].videoSize > budget
    THEN SubSeq(vs, 1, i - 1)
    ELSE FittingPrefix(vs, i + 1, total + vs[i].videoSize, budget)

WithinBudget ==
    /\ library_call.raised = "none"
    /\ library_call.output.items
           = FittingPrefix(SortedDescending(Candidates, 1, <<>>, "views-per-year"),
                           1, 0, SubsetInput.subset_gb * GB)

C27_BudgetPrefix ==
    (Returning("subset_videos_json") /\ SubsetInput.subset_gb # 0)
    => WithinBudget

\* What the code does for the criterion views-per-year and a limit
C27_BudgetPrefixByViewsPerYear ==
    (/\ Returning("subset_videos_json")
     /\ SubsetInput.subset_gb # 0
     /\ SubsetInput.subset_by = "views-per-year"
     /\ SubsetInput.subset_videos # 0)
    => WithinBudget

(***************************************************************************)
(* C28: for every video get_video_json returns, statistics.viewPerYear is  *)
(* floor(viewCount / years) when years = current year - publish year is    *)
(* greater than 0, and 0 when years is 0.  The code computes               *)
(* int(views / years + 1): one more.                                       *)
(***************************************************************************)
VideoJsonReturned ==
    /\ Returning("get_video_json")
    /\ library_call.raised = "none"

C28_ViewPerYearFloor ==
    VideoJsonReturned =>
        \A i \in 1..Len(library_call.output.items) :
            library_call.output.items[i].viewPerYear
                = IF library_call.input.years[library_call.input.videos_ids[i]] > 0
                  THEN ViewCounts[library_call.input.videos_ids[i]]
                           \div library_call.input.years[library_call.input.videos_ids[i]]
                  ELSE 0

\* What the code computes
C28_ViewPerYearPlusOne ==
    VideoJsonReturned =>
        \A i \in 1..Len(library_call.output.items) :
            library_call.output.items[i].viewPerYear
                = IF library_call.input.years[library_call.input.videos_ids[i]] > 0
                  THEN ViewCounts[library_call.input.videos_ids[i]]
                           \div library_call.input.years[library_call.input.videos_ids[i]]
                       + 1
                  ELSE 0

(***************************************************************************)
(* C29: after merge_playlists, the video list persisted under              *)
(* playlist_custom_videos holds each video id at most once, keeps for each *)
(* id the first item in accumulation order (the qualifying playlists in    *)
(* list order, then uploads), preserves that order, and its k-th item      *)
(* (from 0) has snippet.position = k.                                      *)
(***************************************************************************)
\* A playlist is merged when optimize_number is 0 or exceeds its length
Qualifies(c, playlist_id, n) ==
    n = 0 \/ Len(load_json(c, "playlist_" \o playlist_id \o "_videos").items) < n

RECURSIVE AccumulatedFrom(_, _, _, _)
\* The videos of the qualifying playlists of the list, in list order
AccumulatedFrom(c, items, i, n) ==
    IF i > Len(items) THEN <<>>
    ELSE (IF Qualifies(c, items[i].id, n)
          THEN load_json(c, "playlist_" \o items[i].id \o "_videos").items
          ELSE <<>>)
         \o AccumulatedFrom(c, items, i + 1, n)

\* What a merge of the channel in cache c accumulates
Accumulated(c, n) ==
    AccumulatedFrom(c, load_json(c, "channel_UC1_playlists").items, 1, n)
    \o (IF Qualifies(c, "UU1", n)
        THEN load_json(c, "playlist_UU1_videos").items ELSE <<>>)

\* `out` holds, in order and renumbered from 0, the first item of every
\* video id of `acc`
FirstOccurrences(acc, out) ==
    /\ \A k, l \in 1..Len(out) : k # l => out[k].videoId # out[l].videoId
    /\ {out[k].videoId : k \in 1..Len(out)} = {acc[j].videoId : j \in 1..Len(acc)}
    /\ \A k \in 1..Len(out) :
           /\ out[k].position = k - 1
           /\ \E j \in 1..Len(acc) :
                  /\ acc[j].videoId = out[k].videoId
                  /\ \A h \in 1..(j - 1) : acc[h].videoId # out[k].videoId
                  /\ out[k] = [acc[j] EXCEPT !.position = k - 1]
                  /\ \A l \in 1..(k - 1) :
                         \E h \in 1..(j - 1) : acc[h].videoId = out[l].videoId

\* The step is a call of get_channel_playlists_json that merged and returned
MergeReturns ==
    /\ last_call'.fn = "get_channel_playlists_json"
    /\ last_call'.hit
    /\ last_call'.raised = "none"
    /\ ~last_call'.opt.isNone
    /\ last_call'.opt.n = 0 \/ last_call'.opt.n >= 3

C29_MergedVideosUnique ==
    [][MergeReturns =>
          FirstOccurrences(Accumulated(cache, last_call'.opt.n),
                           load_json(cache', "playlist_custom_videos").items)]_vars

\* A merge has returned whose accumulation held a video more than once
C29_Witness ==
    /\ last_call.fn = "get_channel_playlists_json"
    /\ last_call.hit
    /\ last_call.raised = "none"
    /\ last_call.opt = OptOf(0)
    /\ load_json(cache, "playlist_custom_videos") # None
    /\ Len(load_json(cache, "playlist_custom_videos").items) = 4
    /\ load_json(cache, "playlist_custom_videos").items[3].playlistId = "PL2"


(***************************************************************************)
(* C33: with no videos_channels entry and a platform that returns a        *)
(* standard record for each requested id, get_videos_authors_info called   *)
(* with a non-empty list of ids completes, returns a mapping whose keys    *)
(* are exactly those ids and persists it under the videos_channels key.    *)
(* The code builds the entry of the first item with the key expression     *)
(* item["statistics"]["viewPerYear"], which a standard record does not     *)
(* hold: the call raises KeyError and nothing is saved.                    *)
(***************************************************************************)
\* A call with a non-empty list, nothing cached, every id answered
AuthorsRequested(ids) ==
    /\ ids # <<>>
    /\ ~Cached("videos_channels")
    /\ GetVideosAuthorsInfo(ids, "items")

AuthorsDoc(ids) == [kind |-> "dict", keys |-> Range(ids)]

C33_AuthorsInfoCompletes ==
    [][\A ids \in SeqsUpTo(VideoIds, 1) :
          AuthorsRequested(ids)
          => /\ last_call'.raised = "none"
             /\ load_json(cache', "videos_channels") = AuthorsDoc(ids)]_vars

\* What the code does: the first item raises KeyError, nothing is saved
C33_AuthorsInfoRaises ==
    [][\A ids \in SeqsUpTo(VideoIds, 1) :
          AuthorsRequested(ids)
          => /\ last_call'.raised = "KeyError"
             /\ cache' = cache]_vars


(***************************************************************************)
(* C35: playlist merging is idempotent over the cache it leaves: after a   *)
(* merge with optimize number 0 or N >= 3 has rewritten the cache,         *)
(* resolving the same channel again with the same optimize number on that  *)
(* cache completes without error and yields the same playlists and the     *)
(* same playlist_custom_videos content.  The merge leaves the dict         *)
(* {"kind", "etag", "id": "custom"} under channel_<id>_playlists; the next *)
(* call hands that dict to merge_playlists, whose loop walks its keys.     *)
(***************************************************************************)
Merges(o) == ~o.isNone /\ (o.n = 0 \/ o.n >= 3)

\* The last call was a merge of the channel's playlists with number o
MergedWith(ch, o) ==
    /\ Merges(o)
    /\ last_call.fn = "get_channel_playlists_json"
    /\ last_call.arg = ch
    /\ last_call.opt = o
    /\ last_call.hit
    /\ last_call.raised = "none"
    /\ load_json(cache, "channel_" \o ch \o "_playlists") = new_channel_playlists_json

\* The channel is resolved again on the cache the merge left
ResolvedAgain(ch, o) ==
    /\ MergedWith(ch, o)
    /\ GetChannelPlaylistsJson(ch, o, <<PlatformPlaylists(ch)>>, 0)

C35_MergeIdempotent ==
    [][\A ch \in ChannelIds, o \in OptimizeNumbers :
          ResolvedAgain(ch, o)
          => /\ last_call'.raised = "none"
             /\ load_json(cache', "channel_" \o ch \o "_playlists")
                    = new_channel_playlists_json
             /\ load_json(cache', "playlist_custom_videos")
                    = load_json(cache, "playlist_custom_videos")]_vars

\* What the code does: the second resolution raises TypeError
C35_SecondMergeRaises ==
    [][\A ch \in ChannelIds, o \in OptimizeNumbers :
          ResolvedAgain(ch, o)
          => /\ last_call'.raised = "TypeError"
             /\ cache' = cache]_vars


(***************************************************************************)
(* C36: the cache is transparent to playlist resolution: for the same      *)
(* channel, the same platform responses and the same optimize number (0    *)
(* or N >= 3), extract_playlists_details_from returns the same set of      *)
(* playlists from an empty cache as from a cache that holds the channel's  *)
(* playlist list and the per-playlist video lists.  The code looks at the  *)
(* optimize number only when the playlist list is cached.                  *)
(***************************************************************************)
\* The resolution of the same source, every request answered, on cache c
ResolutionOn(c) ==
    extract_playlists_details_from(c, get_id_type(youtube_id), youtube_id,
        optimize, 0, FALSE,
        CHOOSE order \in Orders(playlist_ids_of(c, get_id_type(youtube_id),
                                    youtube_id, optimize, 0, FALSE).ids) : TRUE)

PlaylistIdsIn(pls) == {pls[i].playlist_id : i \in 1..Len(pls)}

\* extract_playlists has ended, on the cache copied from dir, unfailed
ResolvedOnCacheOf(dir) ==
    /\ resolved # "pending"
    /\ data_dir = dir
    /\ get_id_type(youtube_id) = "channel"
    /\ FailedRequests = {}

SameAsOnEmptyCache ==
    /\ resolved = ResolutionOn(EmptyDir).raised
    /\ PlaylistIdsIn(playlists) = PlaylistIdsIn(ResolutionOn(EmptyDir).playlists)

C36_CacheTransparent ==
    (ResolvedOnCacheOf(FullDir) /\ Merges(optimize)) => SameAsOnEmptyCache

\* What the code does: the two resolutions agree when no optimize number
\* is given
C36_CacheTransparentUnoptimized ==
    (ResolvedOnCacheOf(FullDir) /\ optimize.isNone) => SameAsOnEmptyCache


(***************************************************************************)
(* extract_videos_info() in platform mode, called on an orchestrator whose *)
(* playlists are resolved, any number of times on its cache directory.     *)
(* last_call records whether the lookup of the combined mapping found an   *)
(* entry (hit) and the requests of the call.                               *)
(***************************************************************************)
\* self.playlists for a list of playlist ids
PlaylistsOf(ids) == [i \in 1..Len(ids) |-> Playlist(ids[i], PlaylistDoc(ids[i]))]

\* What extract_playlists leaves: the source and its playlists, the ids of
\* a set in either order
Resolutions ==
    {[youtube_id |-> <<PL1Part>>, ids |-> <<"PL1">>, uploads |-> NoneId],
     [youtube_id |-> <<PL1Part, PL2Part>>, ids |-> <<"PL1", "PL2">>, uploads |-> NoneId],
     [youtube_id |-> <<PL1Part, PL2Part>>, ids |-> <<"PL2", "PL1">>, uploads |-> NoneId],
     [youtube_id |-> <<Part("UC1", "UC", 22, "word")>>,
      ids |-> <<"PL1", "PL2", "UU1">>, uploads |-> "UU1"]}

\* The combined mapping of the playlists, every request answered
MappingOf(pls, date_range) ==
    VideosDoc(all_videos_of(Returned(FullDir, <<>>, <<>>), pls, 1, date_range,
                            0, FALSE).result)

\* The directories the calls start on: nothing cached, the per-playlist
\* lists cached, and the one in which the file the lookup opens,
\* videos.json.json, holds the combined mapping
VideosDirs(pls, date_range) ==
    {EmptyDir, FullDir, save_json(FullDir, "videos.json", MappingOf(pls, date_range))}

VideosCall(c, out) ==
    [fn |-> "extract_videos_info", arg |-> "", opt |-> OptNone,
     hit |-> load_json(c, "videos.json") # None,
     requests |-> out.requests, raised |-> out.raised]

\* `if not self.files and self.youtube_id:` onwards
ExtractVideosInfoCall(k, split) ==
    /\ pc = "extract"
    /\ files = <<>>
    /\ \E out \in {extract_videos_info(cache, playlists, dateafter, k, split)} :
           /\ cache' = out.cache
           /\ last_call' = VideosCall(cache, out)
           /\ videos_ids' = IF out.raised = "none" /\ out.assigned
                            THEN out.result ELSE videos_ids
    /\ UNCHANGED <<max_concurrency, engine, resolution, file_mode, library>>
    /\ UNCHANGED <<pc, mode, batches, workers, hist, dirs, overall_succeeded,
                   overall_failed, error, log, authors_arg>>

InitVideos ==
    /\ \E r \in Resolutions :
           /\ youtube_id = r.youtube_id
           /\ playlists = PlaylistsOf(r.ids)
           /\ uploads_playlist_id = r.uploads
    /\ dateafter \in {"all", "none"}
    /\ cache \in VideosDirs(playlists, dateafter)
    /\ data_dir = cache
    /\ optimize = OptNone
    /\ main_channel_id = "UC1"
    /\ api_requests = <<>>
    /\ resolved = "none"
    /\ videos_ids = <<>>
    /\ max_concurrency = 1
    /\ engine = [v \in AllVideoIds |-> "ok"]
    /\ pc = "extract"
    /\ mode = "none"
    /\ batches = <<>>
    /\ workers = <<>>
    /\ hist = {}
    /\ dirs = {}
    /\ overall_succeeded = <<>>
    /\ overall_failed = <<>>
    /\ error = NoError
    /\ log = {}
    /\ authors_arg = <<>>
    /\ last_call = NoCall
    /\ NoFiles
    /\ NotCalling

NextVideos == \E k \in FailPoints, split \in BOOLEAN : ExtractVideosInfoCall(k, split)

SpecVideos == InitVideos /\ [][NextVideos]_vars

(***************************************************************************)
(* C31: in platform mode, after extract_videos_info the resolved video-id  *)
(* list equals the key set of the combined id-to-record mapping (each      *)
(* in-range, non-deleted, non-private video of the resolved playlists      *)
(* exactly once), both when the mapping was computed in this call and when *)
(* it was loaded from the cache.  The code assigns self.videos_ids inside  *)
(* `if all_videos is None:` only.                                          *)
(***************************************************************************)
VideosReturned == last_call.fn = "extract_videos_info" /\ last_call.raised = "none"

\* The combined mapping of the call: the entry found, or the one saved
CombinedMapping ==
    IF last_call.hit THEN load_json(cache, "videos.json") ELSE load_json(cache, "videos")

\* The in-range, non-deleted, non-private videos of the resolved playlists
KeptVideoIds ==
    {v \in UNION {Range(PlatformVideoIds(playlists[i].playlist_id)) :
                     i \in 1..Len(playlists)} :
        dateafter = "all" /\ v \notin DeletedVideos}

ListIsKeySet ==
    /\ videos_ids = CombinedMapping.ids
    /\ Range(videos_ids) = KeptVideoIds
    /\ Cardinality(Range(videos_ids)) = Len(videos_ids)

C31_ListIsKeySet == VideosReturned => ListIsKeySet

\* What the code does: the list is the key set when the mapping was
\* computed in the call, and is left as it was when the mapping was found
C31_ListIsKeySetWhenComputed ==
    /\ (VideosReturned /\ ~last_call.hit) => ListIsKeySet
    /\ (VideosReturned /\ last_call.hit) => videos_ids = <<>>

(***************************************************************************)
(* C32: the combined video mapping persisted by extract_videos_info is the *)
(* entry its own cache lookup reads: after one platform-mode               *)
(* extract_videos_info has saved the mapping, a following                  *)
(* extract_videos_info on the same cache directory finds it at the start   *)
(* and does not rebuild it from the per-playlist video lists.  The code    *)
(* saves under the key "videos" (the file videos.json) and looks up the    *)
(* key "videos.json" (the file videos.json.json).                          *)
(***************************************************************************)
\* The last call computed the mapping and saved it
MappingSaved ==
    /\ VideosReturned
    /\ ~last_call.hit
    /\ load_json(cache, "videos") # None

FollowingCall == \E k \in FailPoints, split \in BOOLEAN : ExtractVideosInfoCall(k, split)

C32_SavedMappingIsFound ==
    [][(MappingSaved /\ FollowingCall)
       => (last_call'.hit /\ last_call'.requests = <<>> /\ cache' = cache)]_vars

\* What the code does: the following call misses the lookup, walks the
\* playlists again and saves the mapping again
C32_SavedMappingIsRebuilt ==
    [][(MappingSaved /\ FollowingCall /\ last_call'.raised = "none")
       => (~last_call'.hit /\ videos_ids' = load_json(cache', "videos").ids)]_vars


(***************************************************************************)
(* Several orchestrators in one process.  YoutubeDownload.__init__ makes   *)
(* a fresh build directory and stores its cache directory in the holder    *)
(* YOUTUBE; the wrapper functions of platforms/youtube.py read             *)
(* YOUTUBE.cache_dir at each call.  process.holder is the orchestrator     *)
(* whose cache directory the holder names; process.runs lists the          *)
(* orchestrators in the order of their construction, each from its         *)
(* construction to the end of extract_playlists, with a valid date range   *)
(* and no branding file.  `used` is the directory the wrapper calls of its *)
(* extract_playlists worked on and `latest` the orchestrator constructed   *)
(* last when they were made.                                               *)
(***************************************************************************)
MaxRuns == 2

SharedSources == {<<PL1Part>>, <<Part("UC1", "UC", 22, "word")>>}

SharedDataDirs == {EmptyDir, FullDir}

\* Mutant: the holder keeps the first cache directory it was given.
youtube_store_update_once(holder, cache_dir) ==
    IF holder = 0 THEN cache_dir ELSE holder

\* Youtube.update(cache_dir=...): setattr(self, key, value)
youtube_store_update(holder, cache_dir) == cache_dir

\* The orchestrator after __init__: build_dir is made by mkdtemp, its
\* cache directory is not made yet
NewOrchestrator(id, dir) ==
    [at |-> "prepare", youtube_id |-> id, data_dir |-> dir, exists |-> FALSE,
     cache |-> EmptyDir, used |-> 0, latest |-> 0, raised |-> "none"]

process_idle ==
    UNCHANGED <<videos_ids, max_concurrency, engine, resolution, file_mode,
                library_call, last_saved, pc, mode, batches, workers, hist,
                dirs, overall_succeeded, overall_failed, error, log,
                authors_arg, last_call, cache>>

\* YoutubeDownload(...): youtube_store.update(cache_dir=self.cache_dir)
ConstructOrchestrator(id, dir) ==
    /\ pc = "process"
    /\ Len(process.runs) < MaxRuns
    /\ process' =
           [holder |-> youtube_store_update(process.holder, Len(process.runs) + 1),
            runs |-> Append(process.runs, NewOrchestrator(id, dir))]
    /\ process_idle

\* prepare_build_folder(): the cache directory is made, emptied of its
\* JSON files, and the JSON files of data_dir are copied into it.
PrepareBuildFolderOf(r) ==
    /\ pc = "process"
    /\ process.runs[r].at = "prepare"
    /\ process' = [process EXCEPT !.runs[r].at = "playlists",
                                  !.runs[r].exists = TRUE,
                                  !.runs[r].cache = process.runs[r].data_dir]
    /\ process_idle

\* extract_playlists(): the wrappers work on the directory the holder
\* names.  In a directory that is not made yet no file exists, and the
\* first save_json raises FileNotFoundError.
ExtractPlaylistsOf(r, k, split) ==
    /\ pc = "process"
    /\ process.runs[r].at = "playlists"
    /\ \E d \in {process.holder}, id \in {process.runs[r].youtube_id} :
       \E c \in {process.runs[d].cache} :
       \E order \in Orders(playlist_ids_of(c, get_id_type(id), id, OptNone,
                                           k, split).ids) :
       \E out \in {extract_playlists_details_from(c, get_id_type(id), id,
                       OptNone, k, split, order)} :
       \E unmade \in {~process.runs[d].exists /\ out.cache # c} :
       \E raised \in {IF unmade THEN "FileNotFoundError" ELSE out.raised} :
           process' = [process EXCEPT
                          !.runs[r].at = IF raised = "none" THEN "done"
                                         ELSE "aborted",
                          !.runs[r].raised = raised,
                          !.runs[r].used = d,
                          !.runs[r].latest = Len(process.runs),
                          !.runs[d].cache = IF unmade THEN c ELSE out.cache]
    /\ process_idle

InitShared ==
    /\ pc = "process"
    /\ videos_ids = <<>>
    /\ max_concurrency = 1
    /\ engine = [v \in AllVideoIds |-> "ok"]
    /\ mode = "none"
    /\ batches = <<>>
    /\ workers = <<>>
    /\ hist = {}
    /\ dirs = {}
    /\ overall_succeeded = <<>>
    /\ overall_failed = <<>>
    /\ error = NoError
    /\ log = {}
    /\ authors_arg = <<>>
    /\ cache = EmptyDir
    /\ last_call = NoCall
    /\ NotResolving

NextShared ==
    \/ \E id \in SharedSources, dir \in SharedDataDirs : ConstructOrchestrator(id, dir)
    \/ \E r \in 1..Len(process.runs) : PrepareBuildFolderOf(r)
    \/ \E r \in 1..Len(process.runs), k \in FailPoints, split \in BOOLEAN :
           ExtractPlaylistsOf(r, k, split)

SpecShared == InitShared /\ [][NextShared]_vars

(***************************************************************************)
(* C34: per-run cache isolation depends on runs not overlapping: when a    *)
(* second orchestrator is constructed in the same process before the first *)
(* run has finished, a state is reachable in which a wrapper call made on  *)
(* behalf of the first run reads or writes the second run's cache          *)
(* directory, because both share the one holder that each constructor      *)
(* overwrites.  As an invariant: the wrapper calls of a run work on the    *)
(* cache directory of the orchestrator constructed last before them, so on *)
(* its own directory exactly when no other orchestrator was constructed    *)
(* since its own.                                                          *)
(***************************************************************************)
WrappersCalled(r) == process.runs[r].used # 0

====
